---------------------------- MODULE Spec2Model ----------------------------
(***************************************************************************)
(* Loan-management ledger program (programs/loan-management): the five     *)
(* account kinds of state.rs and one action per instruction of lib.rs.     *)
(*                                                                         *)
(* u64 amounts and i64 timestamps do not fit the model checker's integers, *)
(* so they are kept as exact naturals in base-10000 limbs, least           *)
(* significant limb first, without leading zero limbs (so equal numbers    *)
(* are equal sequences).  Dec writes such a number most significant limb   *)
(* first: Dec(<<50, 0, 0>>) is 5_000_000_000.  Small counters (u8, u16,    *)
(* loan ids) are plain naturals checked against their type's maximum.      *)
(***************************************************************************)
EXTENDS Integers, Sequences, FiniteSets, TLC

VARIABLES
    programState,    \* the LoanProgramState account
    userProfiles,    \* borrower |-> UserProfile account
    loans,           \* <<borrower, loan_id>> |-> Loan account
    paymentRecords,  \* <<loan address, installment_number>> |-> PaymentRecord
    riskProfiles,    \* borrower |-> RiskProfile account
    now,             \* the ledger clock (Clock::get()?.unix_timestamp)
    waived           \* history: payment address |-> the amounts waived for it

vars == <<programState, userProfiles, loans, paymentRecords, riskProfiles,
          now, waived>>

-----------------------------------------------------------------------------
(* Exact arithmetic on u64 / i64 / u128 values.                            *)

Base == 10000

Zero == <<>>

RECURSIVE Trim(_)
Trim(s) ==
    IF s = <<>> THEN s
    ELSE IF s[Len(s)] = 0 THEN Trim(SubSeq(s, 1, Len(s) - 1)) ELSE s

RECURSIVE Reverse(_)
Reverse(s) == IF s = <<>> THEN <<>> ELSE Append(Reverse(Tail(s)), Head(s))

Dec(hi) == Trim(Reverse(hi))

RECURSIVE BigOfNat(_)
BigOfNat(n) == IF n = 0 THEN <<>> ELSE <<n % Base>> \o BigOfNat(n \div Base)

Limb(a, i) == IF i <= Len(a) THEN a[i] ELSE 0

MaxOf(x, y) == IF x >= y THEN x ELSE y

RECURSIVE AddFrom(_, _, _, _)
AddFrom(a, b, i, carry) ==
    IF i > MaxOf(Len(a), Len(b))
    THEN BigOfNat(carry)
    ELSE LET t == Limb(a, i) + Limb(b, i) + carry
         IN  <<t % Base>> \o AddFrom(a, b, i + 1, t \div Base)

BigAdd(a, b) == AddFrom(a, b, 1, 0)

RECURSIVE LeqFrom(_, _, _)
LeqFrom(a, b, i) ==
    \/ i = 0
    \/ a[i] < b[i]
    \/ a[i] = b[i] /\ LeqFrom(a, b, i - 1)

BigLeq(a, b) ==
    \/ Len(a) < Len(b)
    \/ Len(a) = Len(b) /\ LeqFrom(a, b, Len(a))

BigLt(a, b) == ~BigLeq(b, a)

RECURSIVE SubFrom(_, _, _, _)
SubFrom(a, b, i, borrow) ==
    IF i > Len(a)
    THEN <<>>
    ELSE LET t == Limb(a, i) - Limb(b, i) - borrow
         IN  IF t < 0
             THEN <<t + Base>> \o SubFrom(a, b, i + 1, 1)
             ELSE <<t>> \o SubFrom(a, b, i + 1, 0)

\* a - b for b <= a
BigSub(a, b) == Trim(SubFrom(a, b, 1, 0))

RECURSIVE MulFrom(_, _, _, _)
MulFrom(a, k, i, carry) ==
    IF i > Len(a)
    THEN BigOfNat(carry)
    ELSE LET t == a[i] * k + carry
         IN  <<t % Base>> \o MulFrom(a, k, i + 1, t \div Base)

\* a * k for a plain natural k <= 200000
BigMulSmall(a, k) == Trim(MulFrom(a, k, 1, 0))

RECURSIVE DivFrom(_, _, _, _)
DivFrom(a, d, i, rem) ==
    IF i = 0
    THEN <<>>
    ELSE LET t == rem * Base + a[i]
         IN  Append(DivFrom(a, d, i - 1, t % d), t \div d)

\* floor(a / d) for a plain natural 0 < d <= 200000
BigDivSmall(a, d) == Trim(DivFrom(a, d, Len(a), 0))

RECURSIVE ModFrom(_, _, _, _)
ModFrom(a, d, i, rem) ==
    IF i = 0 THEN rem ELSE ModFrom(a, d, i - 1, (rem * Base + a[i]) % d)

\* a mod d, a plain natural
BigModSmall(a, d) == ModFrom(a, d, Len(a), 0)

RECURSIVE BigSum(_, _)
\* the sum of f[k] over k in S
BigSum(f, S) ==
    IF S = {} THEN Zero
    ELSE LET k == CHOOSE x \in S : TRUE
         IN  BigAdd(f[k], BigSum(f, S \ {k}))

U64_MAX == Dec(<<1844, 6744, 737, 955, 1615>>)
U16_MAX == 65535
U8_MAX == 255

Ok(v) == [ok |-> TRUE, v |-> v]
Overflow == [ok |-> FALSE, v |-> Zero]

\* a checked_add whose result is dropped (a lost update)
LostAddU64(a, b) == Ok(a)

\* u64::checked_add
CheckedAddU64(a, b) ==
    LET s == BigAdd(a, b) IN IF BigLeq(s, U64_MAX) THEN Ok(s) ELSE Overflow

\* u64::checked_mul by a small factor
CheckedMulU64(a, k) ==
    LET p == BigMulSmall(a, k) IN IF BigLeq(p, U64_MAX) THEN Ok(p) ELSE Overflow

\* an addition where the subtraction should be
AddInsteadU64(a, b) == BigAdd(a, b)

\* a subtraction that is lost: the balance stays as it was
LostSubU64(a, b) == a

\* u64::saturating_sub
SaturatingSubU64(a, b) == IF BigLeq(b, a) THEN BigSub(a, b) ELSE Zero

\* u16::checked_add, u8::checked_add
CheckedAddU16(a, b) == IF a + b <= U16_MAX THEN Ok(a + b) ELSE [ok |-> FALSE, v |-> 0]
LostAddU8(a, b) == Ok(a)
CheckedAddU8(a, b) == IF a + b <= U8_MAX THEN Ok(a + b) ELSE [ok |-> FALSE, v |-> 0]

\* u8::saturating_sub, u16::saturating_sub, u16::saturating_add
LostSub(a, b) == a
SaturatingSub(a, b) == IF a >= b THEN a - b ELSE 0
SaturatingAddU16(a, b) == IF a + b <= U16_MAX THEN a + b ELSE U16_MAX

MinOf(x, y) == IF x <= y THEN x ELSE y

-----------------------------------------------------------------------------
(* Program constants.                                                      *)

MAX_NAME_LEN == 100
MAX_HASH_LEN == 100
MAX_FEE_PERCENTAGE == 1000
MIN_PRINCIPAL == Dec(<<50, 0, 0>>)
MAX_PRINCIPAL == Dec(<<5000, 0, 0>>)
MAX_INTEREST_RATE == 3000
MIN_TENURE == 3
MAX_TENURE == 60
SECONDS_PER_DAY == 86400
DAYS_PER_INSTALLMENT == 30
GRACE_DAYS == 2
DAILY_FINE_RATE == 50
FINE_RATE_DIVISOR == 10000
INITIAL_CREDIT_SCORE == 500
MIN_CREDIT_SCORE == 300
MAX_CREDIT_SCORE == 850
ON_TIME_DELTA == 2
LATE_DELTA == 5
COMPLETION_BONUS == 20
DEFAULT_PENALTY == 100
MAX_RISK_SCORE == 1000
MAX_DEFAULT_PROBABILITY == 10000
FACTORS_COUNT == 5

EmploymentType == {"Salaried", "SelfEmployed", "BusinessOwner", "DailyWage", "Unemployed"}
LoanStatus == {"Active", "Completed", "Defaulted", "Cancelled"}
RiskLevel == {"Low", "Medium", "High", "Critical"}

\* Option<i64>
None == <<>>
Some(v) == <<v>>

-----------------------------------------------------------------------------
(* Bounds of the model and the inputs the callers draw from.               *)

MaxLoans == 2
MaxPayments == 2
MaxWaivers == 1

Admin == "admin"
Borrowers == {"alice", "bob"}

RECURSIVE NameOfLen(_)
NameOfLen(n) == IF n = 0 THEN "" ELSE "a" \o NameOfLen(n - 1)
ValidHash == NameOfLen(MAX_HASH_LEN)
LongHash == NameOfLen(MAX_HASH_LEN + 1)

Income == Dec(<<500, 0, 0>>)

\* CreateLoan terms <<principal, rate, tenure>>: the smallest valid loan with
\* any of its terms replaced by the value just below the accepted range, and
\* the largest valid loan with any of its terms replaced by the value just
\* above it.
SmallestTerms == <<MIN_PRINCIPAL, 1200, MIN_TENURE>>
LargestTerms == <<MAX_PRINCIPAL, MAX_INTEREST_RATE, MAX_TENURE>>
LoanInputs ==
    ({MIN_PRINCIPAL, BigSub(MIN_PRINCIPAL, BigOfNat(1))}
        \X {1200, 0} \X {MIN_TENURE, MIN_TENURE - 1})
    \cup
    ({MAX_PRINCIPAL, BigAdd(MAX_PRINCIPAL, BigOfNat(1))}
        \X {MAX_INTEREST_RATE, MAX_INTEREST_RATE + 1}
        \X {MAX_TENURE, MAX_TENURE + 1})

\* The CreateLoan terms the actions submit: for alice the smallest valid
\* loan and the same with too short a tenure, for bob the largest valid loan.
CreateLoanTerms ==
    {<<"alice", SmallestTerms>>,
     <<"alice", <<MIN_PRINCIPAL, 1200, MIN_TENURE - 1>>>>,
     <<"bob", LargestTerms>>}

\* Loans start at T0 = 1_700_000_000.  The clock stands at the end of the
\* grace window of installment 2 of such a loan: installment 2 is paid at
\* its last on-time instant, installment 1 thirty days late.
T0 == Dec(<<17, 0, 0>>)
Days(n) == BigMulSmall(BigOfNat(SECONDS_PER_DAY), n)
StartInputs == {T0}
GraceEnd2 == BigAdd(T0, Days(2 * DAYS_PER_INSTALLMENT + GRACE_DAYS))
ClockInstants == {GraceEnd2}

\* <<borrower, terms, start_timestamp>>
CreateLoanCalls ==
    {<<c[1], c[2], start>> : c \in CreateLoanTerms, start \in StartInputs}

RegisterInputs ==
    {<<NameOfLen(MAX_NAME_LEN), Income>>,
     <<NameOfLen(MAX_NAME_LEN + 1), Income>>}

RiskInputs ==
    {<<MAX_RISK_SCORE, "Low", MAX_DEFAULT_PROBABILITY>>,
     <<MAX_RISK_SCORE + 1, "Low", MAX_DEFAULT_PROBABILITY>>}

ProfileInputs ==
    {<<Some(Zero), None>>, <<Some(BigAdd(Income, Income)), Some("DailyWage")>>}

\* a loan address no loan is ever created at
NoLoan == <<Admin, Zero>>

\* The loans that payments, waivers and closures are submitted for: alice's,
\* and one that does not exist.
LoanCalls == {k \in DOMAIN loans : k[1] = "alice"} \cup {NoLoan}

-----------------------------------------------------------------------------
(* The accounts an instruction sees, and what it returns.                  *)

Accounts ==
    [program_state |-> programState, user_profiles |-> userProfiles,
     loans |-> loans, payment_records |-> paymentRecords,
     risk_profiles |-> riskProfiles]

\* What an instruction returns: err is "Ok" or the error kind, acc is what
\* the handler had written to the accounts when it returned, events are the
\* events it emitted, value is the value of an Ok (get_credit_score).
DoneSilent(acc, event) ==
    [err |-> "Ok", acc |-> acc, events |-> <<>>, value |-> None]
Done(acc, event) ==
    [err |-> "Ok", acc |-> acc, events |-> <<event>>, value |-> None]
DoneQuiet(acc) == [err |-> "Ok", acc |-> acc, events |-> <<>>, value |-> None]
Err(acc, kind) == [err |-> kind, acc |-> acc, events |-> <<>>, value |-> None]

-----------------------------------------------------------------------------
(* instructions/initialize.rs                                              *)

\* err and the LoanProgramState account the handler leaves
initialize_paused(authority, fee_percentage) ==
    [err |-> "Ok",
     program_state |->
         [authority |-> authority, total_users |-> Zero, total_loans |-> Zero,
          total_volume |-> Zero, fee_percentage |-> fee_percentage,
          paused |-> TRUE]]
initialize(authority, fee_percentage) ==
    IF fee_percentage > MAX_FEE_PERCENTAGE
    THEN [err |-> "InvalidInterestRate", program_state |-> None]
    ELSE [err |-> "Ok",
          program_state |->
              [authority |-> authority, total_users |-> Zero,
               total_loans |-> Zero, total_volume |-> Zero,
               fee_percentage |-> fee_percentage, paused |-> FALSE]]

-----------------------------------------------------------------------------
(* instructions/register_user.rs                                           *)

any_income(monthly_income) == TRUE
positive_income(monthly_income) == BigLt(Zero, monthly_income)

register_user(A, clock, authority, full_name, monthly_income, employment_type) ==
    IF authority \in DOMAIN A.user_profiles THEN Err(A, "AccountAlreadyInUse")
    ELSE IF A.program_state.paused THEN Err(A, "ProgramPaused")
    ELSE IF Len(full_name) > MAX_NAME_LEN THEN Err(A, "NameTooLong")
    ELSE IF ~positive_income(monthly_income) THEN Err(A, "IncomeTooLow")
    ELSE
    LET profile ==
            [authority |-> authority, full_name |-> full_name,
             monthly_income |-> monthly_income,
             employment_type |-> employment_type,
             total_loans |-> 0, active_loans |-> 0, completed_loans |-> 0,
             defaulted_loans |-> 0, total_borrowed |-> Zero,
             total_repaid |-> Zero, on_time_payments |-> 0,
             late_payments |-> 0, missed_payments |-> 0,
             credit_score |-> INITIAL_CREDIT_SCORE, risk_level |-> "Medium",
             registration_timestamp |-> clock, last_updated |-> clock]
        A1 == [A EXCEPT !.user_profiles = (authority :> profile) @@ @]
        users == CheckedAddU64(A.program_state.total_users, BigOfNat(1))
    IN  IF ~users.ok THEN Err(A1, "MathOverflow")
        ELSE Done([A1 EXCEPT !.program_state.total_users = users.v],
                  "UserRegistered")

-----------------------------------------------------------------------------
(* instructions/create_loan.rs                                             *)

\* The handler computes the installment in binary64:
\*   monthly_rate = rate / 12.0 / 10000.0
\*   (principal * monthly_rate * (1 + monthly_rate).powf(n)
\*        / ((1 + monthly_rate).powf(n) - 1)) as u64
\* The entries are that expression evaluated in IEEE-754 binary64 for the
\* terms the callers of this model draw from; a zero monthly rate takes the
\* integer branch principal / tenure.
AmortizationTable ==
    {<<MIN_PRINCIPAL, 1, 3>>}     :> Dec(<<16, 6669, 4444>>)     \* 1_666_694_444
 @@ {<<MIN_PRINCIPAL, 1, 60>>}    :> Dec(<<8335, 4515>>)         \* 83_354_515
 @@ {<<MAX_PRINCIPAL, 1, 3>>}     :> Dec(<<1666, 6944, 4450>>)   \* 166_669_444_450
 @@ {<<MAX_PRINCIPAL, 1, 60>>}    :> Dec(<<83, 3545, 1562>>)     \* 8_335_451_562
 @@ {<<MIN_PRINCIPAL, 1200, 3>>}  :> Dec(<<17, 11, 557>>)        \* 1_700_110_557
 @@ {<<MIN_PRINCIPAL, 1200, 60>>} :> Dec(<<1, 1122, 2238>>)      \* 111_222_238
 @@ {<<MIN_PRINCIPAL, 3000, 3>>}  :> Dec(<<17, 5068, 5836>>)     \* 1_750_685_836
 @@ {<<MIN_PRINCIPAL, 3000, 60>>} :> Dec(<<1, 6176, 6979>>)      \* 161_766_979
 @@ {<<MAX_PRINCIPAL, 1200, 3>>}  :> Dec(<<1700, 1105, 5740>>)   \* 170_011_055_740
 @@ {<<MAX_PRINCIPAL, 1200, 60>>} :> Dec(<<111, 2222, 3842>>)    \* 11_122_223_842
 @@ {<<MAX_PRINCIPAL, 3000, 3>>}  :> Dec(<<1750, 6858, 3621>>)   \* 175_068_583_621
 @@ {<<MAX_PRINCIPAL, 3000, 60>>} :> Dec(<<161, 7669, 7950>>)    \* 16_176_697_950

\* an installment that charges no interest: the integer branch alone
flat_installment(principal_amount, interest_rate, tenure_months) ==
    BigDivSmall(principal_amount, tenure_months)
monthly_installment(principal_amount, interest_rate, tenure_months) ==
    IF interest_rate = 0
    THEN BigDivSmall(principal_amount, tenure_months)
    ELSE AmortizationTable[{<<principal_amount, interest_rate, tenure_months>>}]

installment_period(n) == Days(DAYS_PER_INSTALLMENT * n)

\* the require! conditions of the handler, and the id it gives the loan
valid_loan_amount(principal_amount) ==
    BigLeq(MIN_PRINCIPAL, principal_amount)
    /\ BigLeq(principal_amount, MAX_PRINCIPAL)
\* a rate check that forgets the lower bound
rate_upto_max(interest_rate) == interest_rate <= MAX_INTEREST_RATE
valid_interest_rate(interest_rate) ==
    interest_rate > 0 /\ interest_rate <= MAX_INTEREST_RATE
valid_tenure(tenure_months) ==
    tenure_months >= MIN_TENURE /\ tenure_months <= MAX_TENURE
\* a handler without the active-loan check, and one that numbers every
\* loan 0
ignore_active_loans(user_profile) == TRUE
no_active_loan(user_profile) == user_profile.active_loans = 0
first_loan_id(program_state) == Zero
next_loan_id(program_state) == program_state.total_loans

create_loan(A, clock, admin, user_authority, principal_amount, interest_rate, tenure_months, start_timestamp) ==
    LET key == <<user_authority, A.program_state.total_loans>> IN
    IF user_authority \notin DOMAIN A.user_profiles
    THEN Err(A, "AccountNotInitialized")
    ELSE IF key \in DOMAIN A.loans THEN Err(A, "AccountAlreadyInUse")
    ELSE IF A.program_state.paused THEN Err(A, "ProgramPaused")
    ELSE IF ~valid_loan_amount(principal_amount)
    THEN Err(A, "InvalidLoanAmount")
    ELSE IF ~valid_interest_rate(interest_rate)
    THEN Err(A, "InvalidInterestRate")
    ELSE IF ~valid_tenure(tenure_months) THEN Err(A, "InvalidTenure")
    ELSE IF ~no_active_loan(A.user_profiles[user_authority])
    THEN Err(A, "ActiveLoanExists")
    ELSE
    LET installment ==
            monthly_installment(principal_amount, interest_rate, tenure_months)
        total_amount == CheckedMulU64(installment, tenure_months)
    IN
    IF ~total_amount.ok THEN Err(A, "MathOverflow")
    ELSE
    LET up == A.user_profiles[user_authority]
        loan ==
            [user |-> user_authority,
             loan_id |-> next_loan_id(A.program_state),
             principal_amount |-> principal_amount,
             interest_rate |-> interest_rate,
             tenure_months |-> tenure_months,
             monthly_installment |-> installment,
             total_amount |-> total_amount.v,
             outstanding_balance |-> total_amount.v,
             total_repaid |-> Zero, total_fines |-> Zero,
             start_timestamp |-> start_timestamp,
             end_timestamp |->
                 BigAdd(start_timestamp, installment_period(tenure_months)),
             status |-> "Active", created_timestamp |-> clock,
             completed_timestamp |-> None, defaulted_timestamp |-> None]
        A1 == [A EXCEPT !.loans = (key :> loan) @@ @]
        user_loans == CheckedAddU16(up.total_loans, 1)
        A2 == [A1 EXCEPT !.user_profiles[user_authority].total_loans = user_loans.v]
        active == CheckedAddU8(up.active_loans, 1)
        A3 == [A2 EXCEPT !.user_profiles[user_authority].active_loans = active.v]
        borrowed == CheckedAddU64(up.total_borrowed, principal_amount)
        A4 == [A3 EXCEPT !.user_profiles[user_authority].total_borrowed = borrowed.v,
                         !.user_profiles[user_authority].last_updated = clock]
        program_loans == CheckedAddU64(A.program_state.total_loans, BigOfNat(1))
        A5 == [A4 EXCEPT !.program_state.total_loans = program_loans.v]
        volume == CheckedAddU64(A.program_state.total_volume, principal_amount)
        A6 == [A5 EXCEPT !.program_state.total_volume = volume.v]
    IN  IF ~user_loans.ok THEN Err(A1, "MathOverflow")
        ELSE IF ~active.ok THEN Err(A2, "MathOverflow")
        ELSE IF ~borrowed.ok THEN Err(A3, "MathOverflow")
        ELSE IF ~program_loans.ok THEN Err(A4, "MathOverflow")
        ELSE IF ~volume.ok THEN Err(A5, "MathOverflow")
        ELSE Done(A6, "LoanCreated")

-----------------------------------------------------------------------------
(* instructions/record_payment.rs                                          *)

\* `x as u16` of a non-negative number of days
AsU16(x) == BigModSmall(x, U16_MAX + 1)

\* `x as u64` of a u128: x mod 2^64, 2^64 being 65536^4
Shr16(x) == BigDivSmall(x, U16_MAX + 1)
Shl16(x) == BigMulSmall(x, U16_MAX + 1)
AsU64(x) ==
    IF BigLeq(x, U64_MAX) THEN x
    ELSE BigSub(x, Shl16(Shl16(Shl16(Shl16(Shr16(Shr16(Shr16(Shr16(x)))))))))

\* a status check that lets a closed loan through
any_status(loan) == TRUE
loan_is_active(loan) == loan.status = "Active"

\* a range check that forgets the lower bound
installment_upto_tenure(loan, installment_number) ==
    installment_number <= loan.tenure_months
valid_installment(loan, installment_number) ==
    installment_number > 0 /\ installment_number <= loan.tenure_months

grace_end(loan, installment_number) ==
    BigAdd(BigAdd(loan.start_timestamp, installment_period(installment_number)),
           Days(GRACE_DAYS))

is_on_time(loan, installment_number, clock) ==
    BigLeq(clock, grace_end(loan, installment_number))

days_late(loan, installment_number, clock) ==
    IF ~is_on_time(loan, installment_number, clock)
    THEN AsU16(BigDivSmall(BigSub(clock, grace_end(loan, installment_number)),
                           SECONDS_PER_DAY))
    ELSE 0

\* a fine capped at a tenth of the installment
capped_fine(loan, late) ==
    LET tenth == BigDivSmall(loan.monthly_installment, 10)
        fine == BigDivSmall(BigMulSmall(BigMulSmall(loan.monthly_installment,
                                                    DAILY_FINE_RATE), late),
                            FINE_RATE_DIVISOR)
    IN  IF BigLeq(fine, tenth) THEN fine ELSE tenth
fine_amount(loan, late) ==
    IF late > 0
    THEN AsU64(BigDivSmall(
                 BigMulSmall(BigMulSmall(loan.monthly_installment, DAILY_FINE_RATE),
                             late),
                 FINE_RATE_DIVISOR))
    ELSE Zero

record_payment(A, clock, payer, user, loan_id, installment_number, amount, payment_hash) ==
    LET key == <<user, loan_id>>
        pkey == <<key, installment_number>>
    IN
    IF key \notin DOMAIN A.loans \/ user \notin DOMAIN A.user_profiles
    THEN Err(A, "AccountNotInitialized")
    ELSE IF pkey \in DOMAIN A.payment_records THEN Err(A, "AccountAlreadyInUse")
    ELSE
    LET loan == A.loans[key]
        up == A.user_profiles[user]
    IN
    IF ~loan_is_active(loan) THEN Err(A, "LoanNotActive")
    ELSE IF ~valid_installment(loan, installment_number)
    THEN Err(A, "InvalidInstallmentNumber")
    ELSE IF ~BigLt(Zero, amount) THEN Err(A, "InvalidPaymentAmount")
    ELSE IF Len(payment_hash) > MAX_HASH_LEN THEN Err(A, "InvalidStringFormat")
    ELSE
    LET on_time == is_on_time(loan, installment_number, clock)
        late == days_late(loan, installment_number, clock)
        fine == fine_amount(loan, late)
        total_due == BigAdd(loan.monthly_installment, fine)
    IN
    IF ~BigLeq(total_due, amount) THEN Err(A, "InsufficientPayment")
    ELSE
    LET record ==
            [loan |-> key, user |-> user,
             installment_number |-> installment_number, amount |-> amount,
             fine_amount |-> fine, payment_timestamp |-> clock,
             payment_hash |-> payment_hash, on_time |-> on_time,
             days_late |-> late]
        A1 == [A EXCEPT !.payment_records = (pkey :> record) @@ @]
        repaid == CheckedAddU64(loan.total_repaid, amount)
        A2 == [A1 EXCEPT !.loans[key].total_repaid = repaid.v,
                         !.loans[key].outstanding_balance =
                             SaturatingSubU64(loan.outstanding_balance, amount)]
        fines == CheckedAddU64(loan.total_fines, fine)
        A3 == [A2 EXCEPT !.loans[key].total_fines = fines.v]
        user_repaid == CheckedAddU64(up.total_repaid, amount)
        A4 == [A3 EXCEPT !.user_profiles[user].total_repaid = user_repaid.v]
        on_time_count == CheckedAddU16(up.on_time_payments, 1)
        late_count == CheckedAddU16(up.late_payments, 1)
        A5 == IF on_time
              THEN [A4 EXCEPT
                      !.user_profiles[user].on_time_payments = on_time_count.v,
                      !.user_profiles[user].credit_score =
                          MinOf(SaturatingAddU16(up.credit_score, ON_TIME_DELTA),
                                MAX_CREDIT_SCORE),
                      !.user_profiles[user].last_updated = clock]
              ELSE [A4 EXCEPT
                      !.user_profiles[user].late_payments = late_count.v,
                      !.user_profiles[user].credit_score =
                          MaxOf(SaturatingSub(up.credit_score, LATE_DELTA),
                                MIN_CREDIT_SCORE),
                      !.user_profiles[user].last_updated = clock]
    IN  IF ~repaid.ok THEN Err(A1, "MathOverflow")
        ELSE IF ~fines.ok THEN Err(A2, "MathOverflow")
        ELSE IF ~user_repaid.ok THEN Err(A3, "MathOverflow")
        ELSE IF on_time /\ ~on_time_count.ok THEN Err(A4, "MathOverflow")
        ELSE IF ~on_time /\ ~late_count.ok THEN Err(A4, "MathOverflow")
        ELSE Done(A5, "PaymentRecorded")

-----------------------------------------------------------------------------
(* instructions/mark_loan_completed.rs                                     *)

mark_loan_completed(A, clock, authority, user, loan_id) ==
    LET key == <<user, loan_id>> IN
    IF key \notin DOMAIN A.loans \/ user \notin DOMAIN A.user_profiles
    THEN Err(A, "AccountNotInitialized")
    ELSE
    LET loan == A.loans[key]
        up == A.user_profiles[user]
    IN
    IF ~loan_is_active(loan) THEN Err(A, "LoanNotActive")
    ELSE IF loan.outstanding_balance # Zero THEN Err(A, "InsufficientPayment")
    ELSE
    LET A1 == [A EXCEPT !.loans[key].status = "Completed",
                        !.loans[key].completed_timestamp = Some(clock),
                        !.user_profiles[user].active_loans =
                            SaturatingSub(up.active_loans, 1)]
        completed == CheckedAddU16(up.completed_loans, 1)
        A2 == [A1 EXCEPT
                 !.user_profiles[user].completed_loans = completed.v,
                 !.user_profiles[user].credit_score =
                     MinOf(SaturatingAddU16(up.credit_score, COMPLETION_BONUS),
                           MAX_CREDIT_SCORE),
                 !.user_profiles[user].last_updated = clock]
    IN  IF ~completed.ok THEN Err(A1, "MathOverflow")
        ELSE Done(A2, "LoanCompleted")

-----------------------------------------------------------------------------
(* instructions/mark_loan_defaulted.rs                                     *)

\* a handler without the balance check
any_balance(loan) == TRUE
has_outstanding_balance(loan) == BigLt(Zero, loan.outstanding_balance)

mark_loan_defaulted(A, clock, admin, user, loan_id) ==
    LET key == <<user, loan_id>> IN
    IF key \notin DOMAIN A.loans \/ user \notin DOMAIN A.user_profiles
    THEN Err(A, "AccountNotInitialized")
    ELSE
    LET loan == A.loans[key]
        up == A.user_profiles[user]
    IN
    IF ~loan_is_active(loan) THEN Err(A, "LoanNotActive")
    ELSE IF ~has_outstanding_balance(loan)
    THEN Err(A, "LoanAlreadyCompleted")
    ELSE
    LET A1 == [A EXCEPT !.loans[key].status = "Defaulted",
                        !.loans[key].defaulted_timestamp = Some(clock),
                        !.user_profiles[user].active_loans =
                            SaturatingSub(up.active_loans, 1)]
        defaulted == CheckedAddU8(up.defaulted_loans, 1)
        A2 == [A1 EXCEPT
                 !.user_profiles[user].defaulted_loans = defaulted.v,
                 !.user_profiles[user].credit_score =
                     MaxOf(SaturatingSub(up.credit_score, DEFAULT_PENALTY),
                           MIN_CREDIT_SCORE),
                 !.user_profiles[user].risk_level = "Critical",
                 !.user_profiles[user].last_updated = clock]
    IN  IF ~defaulted.ok THEN Err(A1, "MathOverflow")
        ELSE Done(A2, "LoanDefaulted")

-----------------------------------------------------------------------------
(* instructions/waive_fine.rs                                              *)

waive_fine(A, clock, admin, user, loan_id, installment_number, waived_amount) ==
    LET key == <<user, loan_id>>
        pkey == <<key, installment_number>>
    IN
    IF \/ key \notin DOMAIN A.loans
       \/ user \notin DOMAIN A.user_profiles
       \/ pkey \notin DOMAIN A.payment_records
    THEN Err(A, "AccountNotInitialized")
    ELSE IF ~BigLeq(waived_amount, A.payment_records[pkey].fine_amount)
    THEN Err(A, "InvalidPaymentAmount")
    ELSE Done([A EXCEPT
                 !.loans[key].outstanding_balance =
                     SaturatingSubU64(@, waived_amount),
                 !.loans[key].total_fines = SaturatingSubU64(@, waived_amount)],
              "FineWaived")

-----------------------------------------------------------------------------
(* instructions/update_risk_score.rs                                       *)

income_multiplier(risk_level) ==
    CASE risk_level = "Low" -> 10
      [] risk_level = "Medium" -> 6
      [] risk_level = "High" -> 3
      [] risk_level = "Critical" -> 1

risk_score_upto_u16(risk_score) == risk_score <= U16_MAX
valid_risk_score(risk_score) == risk_score <= MAX_RISK_SCORE

update_risk_score(A, clock, admin, user, risk_score, risk_level, default_probability) ==
    IF user \notin DOMAIN A.user_profiles THEN Err(A, "AccountNotInitialized")
    ELSE IF ~valid_risk_score(risk_score) THEN Err(A, "InvalidRiskScore")
    ELSE IF default_probability > MAX_DEFAULT_PROBABILITY
    THEN Err(A, "InvalidDefaultProbability")
    ELSE
    LET up == A.user_profiles[user]
        A1 == [A EXCEPT !.user_profiles[user].credit_score = risk_score,
                        !.user_profiles[user].risk_level = risk_level,
                        !.user_profiles[user].last_updated = clock]
        \* init_if_needed: a fresh RiskProfile account is zeroed
        fresh == [user |-> user, risk_score |-> risk_score,
                  risk_level |-> risk_level,
                  default_probability |-> default_probability,
                  recommended_max_loan |-> Zero, last_calculated |-> Zero,
                  factors_count |-> 0]
        A2 == IF user \in DOMAIN A.risk_profiles
              THEN [A1 EXCEPT
                      !.risk_profiles[user].risk_score = risk_score,
                      !.risk_profiles[user].risk_level = risk_level,
                      !.risk_profiles[user].default_probability =
                          default_probability]
              ELSE [A1 EXCEPT !.risk_profiles = (user :> fresh) @@ @]
        recommended ==
            CheckedMulU64(up.monthly_income, income_multiplier(risk_level))
        A3 == [A2 EXCEPT
                 !.risk_profiles[user].recommended_max_loan = recommended.v,
                 !.risk_profiles[user].last_calculated = clock,
                 !.risk_profiles[user].factors_count = FACTORS_COUNT]
    IN  IF ~recommended.ok THEN Err(A2, "MathOverflow")
        ELSE Done(A3, "RiskScoreUpdated")

-----------------------------------------------------------------------------
(* instructions/update_user_profile.rs                                     *)

\* The address of a UserProfile is the program address derived from the
\* seeds "user-profile" and its owner's key, so a profile account is named
\* here by the identity it was created for.  The seeds constraint derives
\* the address from the signer and compares it with the account passed.
seeds_match(user_profile, authority) == user_profile = authority

\* user_profile is the account the caller passes, authority the signer.
\* The account is loaded first, then its constraints are checked as Anchor
\* generates them: seeds before has_one.  monthly_income and employment_type
\* are Option values: None or Some(v).
update_user_profile(A, clock, user_profile, authority, monthly_income, employment_type) ==
    IF user_profile \notin DOMAIN A.user_profiles
    THEN Err(A, "AccountNotInitialized")
    ELSE IF ~seeds_match(user_profile, authority)
    THEN Err(A, "ConstraintSeeds")
    ELSE IF A.user_profiles[user_profile].authority # authority
    THEN Err(A, "Unauthorized")
    ELSE IF monthly_income # None /\ ~BigLt(Zero, monthly_income[1])
    THEN Err(A, "IncomeTooLow")
    ELSE
    LET A1 == IF monthly_income # None
              THEN [A EXCEPT !.user_profiles[authority].monthly_income =
                                 monthly_income[1]]
              ELSE A
        A2 == IF employment_type # None
              THEN [A1 EXCEPT !.user_profiles[authority].employment_type =
                                  employment_type[1]]
              ELSE A1
    IN  DoneQuiet([A2 EXCEPT !.user_profiles[authority].last_updated = clock])

-----------------------------------------------------------------------------
(* instructions/get_credit_score.rs                                        *)

get_credit_score(A, user) ==
    IF user \notin DOMAIN A.user_profiles THEN Err(A, "AccountNotInitialized")
    ELSE [err |-> "Ok", acc |-> A, events |-> <<>>,
          value |-> Some(A.user_profiles[user].credit_score)]

-----------------------------------------------------------------------------
(* lib.rs: an instruction returns its handler's Result.  The ledger keeps  *)
(* what the handler wrote to the accounts only when that Result is Ok; an  *)
(* instruction that returns an error is rolled back.                       *)

\* a ledger without rollback: what a failed handler wrote stays
CommitPartial(res) == res.acc

Commit(res) == IF res.err = "Ok" THEN res.acc ELSE Accounts

Submit(res) ==
    \E acc \in {Commit(res)} :
        /\ programState' = acc.program_state
        /\ userProfiles' = acc.user_profiles
        /\ loans' = acc.loans
        /\ paymentRecords' = acc.payment_records
        /\ riskProfiles' = acc.risk_profiles
        /\ UNCHANGED now

-----------------------------------------------------------------------------
(* The state machine: the ledger after initialize, and one action per      *)
(* instruction.  Each action submits one of the instruction's calls; the   *)
(* call's outcome is the handler applied to the accounts as they stand.    *)

Init ==
    /\ programState = initialize(Admin, 250).program_state
    /\ userProfiles = <<>>
    /\ loans = <<>>
    /\ paymentRecords = <<>>
    /\ riskProfiles = <<>>
    /\ now \in ClockInstants
    /\ waived = <<>>

RegisterUserCalls == Borrowers \X RegisterInputs
RegisterUserOutcome(c) ==
    register_user(Accounts, now, c[1], c[2][1], c[2][2], "Salaried")

RegisterUser ==
    \E res \in {RegisterUserOutcome(c) : c \in RegisterUserCalls} :
        Submit(res) /\ UNCHANGED waived

\* <<profile account, signer, arguments>>: bob on his own profile, and alice
\* on bob's
UpdateUserProfileCalls == {<<"bob", "bob">>, <<"bob", "alice">>} \X ProfileInputs
UpdateUserProfileOutcome(c) ==
    update_user_profile(Accounts, now, c[1][1], c[1][2], c[2][1], c[2][2])

UpdateUserProfile ==
    \E res \in {UpdateUserProfileOutcome(c) : c \in UpdateUserProfileCalls} :
        Submit(res) /\ UNCHANGED waived

CreateLoanOutcome(c) ==
    create_loan(Accounts, now, Admin, c[1], c[2][1], c[2][2], c[2][3], c[3])

CreateLoan ==
    /\ BigLt(programState.total_loans, BigOfNat(MaxLoans))
    /\ \E res \in {CreateLoanOutcome(c) : c \in CreateLoanCalls} :
           Submit(res) /\ UNCHANGED waived

\* The amounts a payer offers for an installment of a loan: nothing, one
\* unit short of what is due now, what is due now, the whole outstanding
\* balance, and the largest u64.
AmountInputs(key, installment_number) ==
    IF key \notin DOMAIN loans THEN [Nothing |-> Zero]
    ELSE LET due == BigAdd(loans[key].monthly_installment,
                           fine_amount(loans[key],
                                       days_late(loans[key], installment_number, now)))
         IN  [Nothing |-> Zero, Short |-> BigSub(due, BigOfNat(1)),
              Due |-> due, Payoff |-> loans[key].outstanding_balance,
              Max |-> U64_MAX]

\* <<loan address, installment number, amount, payment hash>>
PaymentsFor(key) ==
    IF key \notin DOMAIN loans
    THEN {<<1, "Nothing", ValidHash>>}
    ELSE {<<1, "Due", ValidHash>>, <<1, "Short", ValidHash>>,
          <<1, "Max", ValidHash>>, <<2, "Due", ValidHash>>,
          <<2, "Payoff", ValidHash>>}
RecordPaymentCalls ==
    UNION {{<<key, p[1], AmountInputs(key, p[1])[p[2]], p[3]>> :
                p \in PaymentsFor(key)} : key \in LoanCalls}
RecordPaymentOutcome(c) ==
    record_payment(Accounts, now, Admin, c[1][1], c[1][2], c[2], c[3], c[4])

RecordPayment ==
    /\ Cardinality(DOMAIN paymentRecords) < MaxPayments
    /\ \E res \in {RecordPaymentOutcome(c) : c \in RecordPaymentCalls} :
           Submit(res) /\ UNCHANGED waived

UpdateRiskScoreCalls == {"alice"} \X RiskInputs
UpdateRiskScoreOutcome(c) ==
    update_risk_score(Accounts, now, Admin, c[1], c[2][1], c[2][2], c[2][3])

UpdateRiskScore ==
    \E res \in {UpdateRiskScoreOutcome(c) : c \in UpdateRiskScoreCalls} :
        Submit(res) /\ UNCHANGED waived

MarkLoanDefaultedOutcome(key) ==
    mark_loan_defaulted(Accounts, now, Admin, key[1], key[2])

MarkLoanDefaulted ==
    \E res \in {MarkLoanDefaultedOutcome(key) : key \in LoanCalls} :
        Submit(res) /\ UNCHANGED waived

MarkLoanCompletedOutcome(key) ==
    mark_loan_completed(Accounts, now, Admin, key[1], key[2])

MarkLoanCompleted ==
    \E res \in {MarkLoanCompletedOutcome(key) : key \in LoanCalls} :
        Submit(res) /\ UNCHANGED waived

\* The waivers an administrator submits, <<payment address, amount>>: for a
\* payment that carried a fine, that fine and one unit more.
WaiveFineCalls ==
    UNION {{<<pkey, paymentRecords[pkey].fine_amount>>,
            <<pkey, BigAdd(paymentRecords[pkey].fine_amount, BigOfNat(1))>>} :
               pkey \in {p \in DOMAIN paymentRecords :
                            /\ p[1] \in LoanCalls
                            /\ BigLt(Zero, paymentRecords[p].fine_amount)}}
    \cup {<<<<NoLoan, 1>>, Zero>>}
WaiveFineOutcome(c) ==
    waive_fine(Accounts, now, Admin, c[1][1][1], c[1][1][2], c[1][2], c[2])

RECURSIVE CountWaivers(_)
CountWaivers(S) ==
    IF S = {} THEN 0
    ELSE LET p == CHOOSE q \in S : TRUE
         IN  Len(waived[p]) + CountWaivers(S \ {p})
WaiversSoFar == CountWaivers(DOMAIN waived)

WaiveFine ==
    /\ WaiversSoFar < MaxWaivers
    /\ \E c \in WaiveFineCalls : \E res \in {WaiveFineOutcome(c)} :
           LET sofar == IF c[1] \in DOMAIN waived THEN waived[c[1]] ELSE <<>>
           IN  /\ Submit(res)
               /\ waived' = IF res.err = "Ok"
                            THEN (c[1] :> Append(sofar, c[2])) @@ waived
                            ELSE waived

GetCreditScoreOutcome(user) == get_credit_score(Accounts, user)

GetCreditScore ==
    \E res \in {GetCreditScoreOutcome(user) : user \in Borrowers} :
        Submit(res) /\ UNCHANGED waived

Next ==
    \/ RegisterUser
    \/ UpdateUserProfile
    \/ CreateLoan
    \/ RecordPayment
    \/ UpdateRiskScore
    \/ MarkLoanDefaulted
    \/ MarkLoanCompleted
    \/ WaiveFine
    \/ GetCreditScore

Spec == Init /\ [][Next]_vars

\* What the calls of the actions return in the current state.
Outcomes ==
    {RegisterUserOutcome(c) : c \in RegisterUserCalls}
    \cup {UpdateUserProfileOutcome(c) : c \in UpdateUserProfileCalls}
    \cup {CreateLoanOutcome(c) : c \in CreateLoanCalls}
    \cup {RecordPaymentOutcome(c) : c \in RecordPaymentCalls}
    \cup {UpdateRiskScoreOutcome(c) : c \in UpdateRiskScoreCalls}
    \cup {MarkLoanDefaultedOutcome(key) : key \in LoanCalls}
    \cup {MarkLoanCompletedOutcome(key) : key \in LoanCalls}
    \cup {WaiveFineOutcome(c) : c \in WaiveFineCalls}
    \cup {GetCreditScoreOutcome(user) : user \in Borrowers}

-----------------------------------------------------------------------------
(* SINGLE_FILE_PROGRAM.rs: the same program in one file.  initialize,       *)
(* register_user, update_user_profile, create_loan and get_credit_score     *)
(* have the handlers of the modular program; the other five differ.         *)

SINGLE_FINE_DIVISOR == 100
SINGLE_FINE_CAP_DIVISOR == 10
SINGLE_INCOME_MULTIPLIER == 10
SINGLE_DEFAULT_PENALTY == 200
SINGLE_COMPLETION_BONUS == 50
SINGLE_MAX_CREDIT_SCORE == 1000

\* u64 `a * k` written without a check: the product when it fits; when it
\* does not, a build with overflow checks panics (ok = FALSE) and a build
\* without them keeps the product mod 2^64.
UncheckedMulU64(a, k, overflow_checks) ==
    LET p == BigMulSmall(a, k)
    IN  IF BigLeq(p, U64_MAX) THEN Ok(p)
        ELSE [ok |-> ~overflow_checks, v |-> AsU64(p)]

\* u64::checked_sub, u8::checked_sub
CheckedSubU64(a, b) == IF BigLeq(b, a) THEN Ok(BigSub(a, b)) ELSE Overflow
CheckedSubU8(a, b) == IF a >= b THEN Ok(a - b) ELSE [ok |-> FALSE, v |-> 0]

BigMin(a, b) == IF BigLeq(a, b) THEN a ELSE b

single_initialize(authority, fee_percentage) ==
    initialize(authority, fee_percentage)

single_register_user(A, clock, authority, full_name, monthly_income, employment_type) ==
    register_user(A, clock, authority, full_name, monthly_income, employment_type)

\* as the modular instruction, but has_one carries no error of its own
single_update_user_profile(A, clock, user_profile, authority, monthly_income, employment_type) ==
    LET res == update_user_profile(A, clock, user_profile, authority, monthly_income, employment_type)
    IN  IF res.err = "Unauthorized" THEN Err(A, "ConstraintHasOne") ELSE res

single_create_loan(A, clock, admin, user_authority, principal_amount, interest_rate, tenure_months, start_timestamp) ==
    create_loan(A, clock, admin, user_authority, principal_amount, interest_rate, tenure_months, start_timestamp)

\* the amount is checked against the installment alone, before the fine is
\* computed
covers_installment(loan, amount) == BigLeq(loan.monthly_installment, amount)

single_days_late(loan, installment_number, clock) ==
    LET due_date == BigAdd(loan.start_timestamp,
                           installment_period(installment_number))
    IN  IF BigLt(due_date, clock)
        THEN AsU16(BigDivSmall(BigSub(clock, due_date), SECONDS_PER_DAY))
        ELSE 0

\* [ok, v]: ok is FALSE when the unchecked product panics
single_fine_amount(loan, late, overflow_checks) ==
    IF late > 0
    THEN LET product ==
                 UncheckedMulU64(loan.monthly_installment, late, overflow_checks)
         IN  [ok |-> product.ok,
              v |-> BigMin(BigDivSmall(product.v, SINGLE_FINE_DIVISOR),
                           BigDivSmall(loan.monthly_installment,
                                       SINGLE_FINE_CAP_DIVISOR))]
    ELSE Ok(Zero)

single_record_payment(A, clock, admin, user, loan_id, installment_number, amount, payment_hash, overflow_checks) ==
    LET key == <<user, loan_id>>
        pkey == <<key, installment_number>>
    IN
    IF key \notin DOMAIN A.loans \/ user \notin DOMAIN A.user_profiles
    THEN Err(A, "AccountNotInitialized")
    ELSE IF pkey \in DOMAIN A.payment_records THEN Err(A, "AccountAlreadyInUse")
    ELSE
    LET loan == A.loans[key]
        up == A.user_profiles[user]
        late == single_days_late(loan, installment_number, clock)
        fine == single_fine_amount(loan, late, overflow_checks)
        on_time == late = 0
    IN
    IF ~loan_is_active(loan) THEN Err(A, "LoanNotActive")
    ELSE IF ~valid_installment(loan, installment_number)
    THEN Err(A, "InvalidInstallmentNumber")
    ELSE IF ~covers_installment(loan, amount)
    THEN Err(A, "InsufficientPayment")
    ELSE IF ~fine.ok THEN Err(A, "ProgramFailedToComplete")
    ELSE
    LET record ==
            [loan |-> key, user |-> user,
             installment_number |-> installment_number, amount |-> amount,
             fine_amount |-> fine.v, payment_timestamp |-> clock,
             payment_hash |-> payment_hash, on_time |-> on_time,
             days_late |-> late]
        A1 == [A EXCEPT !.payment_records = (pkey :> record) @@ @]
        total_payment == CheckedAddU64(amount, fine.v)
        outstanding == CheckedSubU64(loan.outstanding_balance, amount)
        A2 == [A1 EXCEPT !.loans[key].outstanding_balance = outstanding.v]
        repaid == CheckedAddU64(loan.total_repaid, total_payment.v)
        A3 == [A2 EXCEPT !.loans[key].total_repaid = repaid.v]
        fines == CheckedAddU64(loan.total_fines, fine.v)
        A4 == [A3 EXCEPT !.loans[key].total_fines = fines.v]
        user_repaid == CheckedAddU64(up.total_repaid, total_payment.v)
        A5 == [A4 EXCEPT !.user_profiles[user].total_repaid = user_repaid.v]
        on_time_count == CheckedAddU16(up.on_time_payments, 1)
        late_count == CheckedAddU16(up.late_payments, 1)
        A6 == IF on_time
              THEN [A5 EXCEPT
                      !.user_profiles[user].on_time_payments = on_time_count.v,
                      !.user_profiles[user].last_updated = clock]
              ELSE [A5 EXCEPT
                      !.user_profiles[user].late_payments = late_count.v,
                      !.user_profiles[user].last_updated = clock]
    IN  IF ~total_payment.ok THEN Err(A1, "MathOverflow")
        ELSE IF ~outstanding.ok THEN Err(A1, "MathOverflow")
        ELSE IF ~repaid.ok THEN Err(A2, "MathOverflow")
        ELSE IF ~fines.ok THEN Err(A3, "MathOverflow")
        ELSE IF ~user_repaid.ok THEN Err(A4, "MathOverflow")
        ELSE IF on_time /\ ~on_time_count.ok THEN Err(A5, "MathOverflow")
        ELSE IF ~on_time /\ ~late_count.ok THEN Err(A5, "MathOverflow")
        ELSE Done(A6, "PaymentRecorded")

single_update_risk_score(A, clock, admin, user, risk_score, risk_level, default_probability, overflow_checks) ==
    IF user \notin DOMAIN A.user_profiles THEN Err(A, "AccountNotInitialized")
    ELSE IF risk_score > MAX_RISK_SCORE THEN Err(A, "InvalidRiskScore")
    ELSE IF default_probability > MAX_DEFAULT_PROBABILITY
    THEN Err(A, "InvalidDefaultProbability")
    ELSE
    LET up == A.user_profiles[user]
        A1 == [A EXCEPT !.user_profiles[user].credit_score = risk_score,
                        !.user_profiles[user].risk_level = risk_level,
                        !.user_profiles[user].last_updated = clock]
        fresh == [user |-> user, risk_score |-> risk_score,
                  risk_level |-> risk_level,
                  default_probability |-> default_probability,
                  recommended_max_loan |-> Zero, last_calculated |-> Zero,
                  factors_count |-> 0]
        A2 == IF user \in DOMAIN A.risk_profiles
              THEN [A1 EXCEPT
                      !.risk_profiles[user].risk_score = risk_score,
                      !.risk_profiles[user].risk_level = risk_level,
                      !.risk_profiles[user].default_probability =
                          default_probability]
              ELSE [A1 EXCEPT !.risk_profiles = (user :> fresh) @@ @]
        product == UncheckedMulU64(up.monthly_income, SINGLE_INCOME_MULTIPLIER,
                                   overflow_checks)
        A3 == [A2 EXCEPT
                 !.risk_profiles[user].recommended_max_loan =
                     BigMin(product.v, MAX_PRINCIPAL),
                 !.risk_profiles[user].last_calculated = clock,
                 !.risk_profiles[user].factors_count = FACTORS_COUNT]
    IN  IF ~product.ok THEN Err(A2, "ProgramFailedToComplete")
        ELSE Done(A3, "RiskScoreUpdated")

single_mark_loan_defaulted(A, clock, admin, user, loan_id) ==
    LET key == <<user, loan_id>> IN
    IF key \notin DOMAIN A.loans \/ user \notin DOMAIN A.user_profiles
    THEN Err(A, "AccountNotInitialized")
    ELSE
    LET loan == A.loans[key]
        up == A.user_profiles[user]
    IN
    IF ~loan_is_active(loan) THEN Err(A, "LoanNotActive")
    ELSE
    LET A1 == [A EXCEPT !.loans[key].status = "Defaulted",
                        !.loans[key].defaulted_timestamp = Some(clock)]
        active == CheckedSubU8(up.active_loans, 1)
        A2 == [A1 EXCEPT !.user_profiles[user].active_loans = active.v]
        defaulted == CheckedAddU8(up.defaulted_loans, 1)
        A3 == [A2 EXCEPT
                 !.user_profiles[user].defaulted_loans = defaulted.v,
                 !.user_profiles[user].credit_score =
                     SaturatingSub(up.credit_score, SINGLE_DEFAULT_PENALTY),
                 !.user_profiles[user].risk_level = "Critical",
                 !.user_profiles[user].last_updated = clock]
    IN  IF ~active.ok THEN Err(A1, "MathOverflow")
        ELSE IF ~defaulted.ok THEN Err(A2, "MathOverflow")
        ELSE Done(A3, "LoanDefaulted")

\* credit_score + 50 is a u16 sum written without a check; the score is at
\* most 1000 wherever it is written, far from the width of a u16
single_mark_loan_completed(A, clock, admin, user, loan_id) ==
    LET key == <<user, loan_id>> IN
    IF key \notin DOMAIN A.loans \/ user \notin DOMAIN A.user_profiles
    THEN Err(A, "AccountNotInitialized")
    ELSE
    LET loan == A.loans[key]
        up == A.user_profiles[user]
    IN
    IF ~loan_is_active(loan) THEN Err(A, "LoanNotActive")
    ELSE IF loan.outstanding_balance # Zero THEN Err(A, "InsufficientPayment")
    ELSE
    LET A1 == [A EXCEPT !.loans[key].status = "Completed",
                        !.loans[key].completed_timestamp = Some(clock)]
        active == CheckedSubU8(up.active_loans, 1)
        A2 == [A1 EXCEPT !.user_profiles[user].active_loans = active.v]
        completed == CheckedAddU16(up.completed_loans, 1)
        A3 == [A2 EXCEPT
                 !.user_profiles[user].completed_loans = completed.v,
                 !.user_profiles[user].credit_score =
                     MinOf(up.credit_score + SINGLE_COMPLETION_BONUS,
                           SINGLE_MAX_CREDIT_SCORE),
                 !.user_profiles[user].last_updated = clock]
    IN  IF ~active.ok THEN Err(A1, "MathOverflow")
        ELSE IF ~completed.ok THEN Err(A2, "MathOverflow")
        ELSE Done(A3, "LoanCompleted")

\* the accounts are the loan and a signer: no PaymentRecord, no UserProfile
single_waive_fine(A, clock, admin, user, loan_id, installment_number, waived_amount) ==
    LET key == <<user, loan_id>> IN
    IF key \notin DOMAIN A.loans THEN Err(A, "AccountNotInitialized")
    ELSE IF ~BigLeq(waived_amount, A.loans[key].total_fines)
    THEN Err(A, "InvalidPaymentAmount")
    ELSE Done([A EXCEPT !.loans[key].total_fines = BigSub(@, waived_amount)],
              "FineWaived")

single_get_credit_score(A, authority) == get_credit_score(A, authority)

-----------------------------------------------------------------------------
(* The state machine of the single-file program, over the same accounts    *)
(* and with the callers of the modular one.                                *)

\* the two builds of the program: with and without overflow checks
OverflowChecks == BOOLEAN

SingleInit ==
    /\ programState = single_initialize(Admin, 250).program_state
    /\ userProfiles = <<>>
    /\ loans = <<>>
    /\ paymentRecords = <<>>
    /\ riskProfiles = <<>>
    /\ now \in ClockInstants
    /\ waived = <<>>

SingleRegisterUserOutcome(c) ==
    single_register_user(Accounts, now, c[1], c[2][1], c[2][2], "Salaried")

SingleRegisterUser ==
    \E res \in {SingleRegisterUserOutcome(c) : c \in RegisterUserCalls} :
        Submit(res) /\ UNCHANGED waived

SingleUpdateUserProfileOutcome(c) ==
    single_update_user_profile(Accounts, now, c[1][1], c[1][2], c[2][1], c[2][2])

SingleUpdateUserProfile ==
    \E res \in {SingleUpdateUserProfileOutcome(c) : c \in UpdateUserProfileCalls} :
        Submit(res) /\ UNCHANGED waived

SingleCreateLoanOutcome(c) ==
    single_create_loan(Accounts, now, Admin, c[1], c[2][1], c[2][2], c[2][3], c[3])

SingleCreateLoan ==
    /\ BigLt(programState.total_loans, BigOfNat(MaxLoans))
    /\ \E res \in {SingleCreateLoanOutcome(c) : c \in CreateLoanCalls} :
           Submit(res) /\ UNCHANGED waived

\* what the single-file handler charges for an installment at a ledger time
SingleFineAt(key, installment_number, clock) ==
    single_fine_amount(loans[key],
                       single_days_late(loans[key], installment_number, clock),
                       TRUE).v

\* The amounts a payer offers for an installment of a loan: nothing, one
\* unit short of the installment, the installment, the installment with the
\* fine, the whole outstanding balance, and the largest u64.
SingleAmountInputs(key, installment_number) ==
    IF key \notin DOMAIN loans THEN [Nothing |-> Zero]
    ELSE [Nothing |-> Zero,
          Short |-> BigSub(loans[key].monthly_installment, BigOfNat(1)),
          Installment |-> loans[key].monthly_installment,
          Due |-> BigAdd(loans[key].monthly_installment,
                         SingleFineAt(key, installment_number, now)),
          Payoff |-> loans[key].outstanding_balance,
          Max |-> U64_MAX]

SinglePaymentsFor(key) ==
    IF key \notin DOMAIN loans
    THEN {<<1, "Nothing", ValidHash>>}
    ELSE {<<1, "Installment", ValidHash>>, <<1, "Short", ValidHash>>,
          <<1, "Max", ValidHash>>, <<2, "Due", ValidHash>>,
          <<2, "Payoff", ValidHash>>}
SingleRecordPaymentCalls ==
    UNION {{<<key, p[1], SingleAmountInputs(key, p[1])[p[2]], p[3]>> :
                p \in SinglePaymentsFor(key)} : key \in LoanCalls}
SingleRecordPaymentOutcome(c, checks) ==
    single_record_payment(Accounts, now, Admin, c[1][1], c[1][2], c[2], c[3], c[4], checks)

SingleRecordPayment ==
    /\ Cardinality(DOMAIN paymentRecords) < MaxPayments
    /\ \E res \in {SingleRecordPaymentOutcome(c, checks) :
                      c \in SingleRecordPaymentCalls, checks \in OverflowChecks} :
           Submit(res) /\ UNCHANGED waived

SingleUpdateRiskScoreOutcome(c, checks) ==
    single_update_risk_score(Accounts, now, Admin, c[1], c[2][1], c[2][2], c[2][3], checks)

SingleUpdateRiskScore ==
    \E res \in {SingleUpdateRiskScoreOutcome(c, checks) :
                   c \in UpdateRiskScoreCalls, checks \in OverflowChecks} :
        Submit(res) /\ UNCHANGED waived

SingleMarkLoanDefaultedOutcome(key) ==
    single_mark_loan_defaulted(Accounts, now, Admin, key[1], key[2])

SingleMarkLoanDefaulted ==
    \E res \in {SingleMarkLoanDefaultedOutcome(key) : key \in LoanCalls} :
        Submit(res) /\ UNCHANGED waived

SingleMarkLoanCompletedOutcome(key) ==
    single_mark_loan_completed(Accounts, now, Admin, key[1], key[2])

SingleMarkLoanCompleted ==
    \E res \in {SingleMarkLoanCompletedOutcome(key) : key \in LoanCalls} :
        Submit(res) /\ UNCHANGED waived

\* The waivers submitted, <<<<loan address, installment number>>, amount>>:
\* for a loan that carries fines, all of them and one unit more.
SingleWaiveFineCalls ==
    UNION {{<<<<key, 1>>, loans[key].total_fines>>,
            <<<<key, 1>>, BigAdd(loans[key].total_fines, BigOfNat(1))>>} :
               key \in {k \in LoanCalls \cap DOMAIN loans :
                           BigLt(Zero, loans[k].total_fines)}}
    \cup {<<<<NoLoan, 1>>, Zero>>}
SingleWaiveFineOutcome(c) ==
    single_waive_fine(Accounts, now, Admin, c[1][1][1], c[1][1][2], c[1][2], c[2])

SingleWaiveFine ==
    /\ WaiversSoFar < MaxWaivers
    /\ \E c \in SingleWaiveFineCalls : \E res \in {SingleWaiveFineOutcome(c)} :
           LET sofar == IF c[1] \in DOMAIN waived THEN waived[c[1]] ELSE <<>>
           IN  /\ Submit(res)
               /\ waived' = IF res.err = "Ok"
                            THEN (c[1] :> Append(sofar, c[2])) @@ waived
                            ELSE waived

SingleGetCreditScoreOutcome(user) == single_get_credit_score(Accounts, user)

SingleGetCreditScore ==
    \E res \in {SingleGetCreditScoreOutcome(user) : user \in Borrowers} :
        Submit(res) /\ UNCHANGED waived

SingleNext ==
    \/ SingleRegisterUser
    \/ SingleUpdateUserProfile
    \/ SingleCreateLoan
    \/ SingleRecordPayment
    \/ SingleUpdateRiskScore
    \/ SingleMarkLoanDefaulted
    \/ SingleMarkLoanCompleted
    \/ SingleWaiveFine
    \/ SingleGetCreditScore

SingleSpec == SingleInit /\ [][SingleNext]_vars

-----------------------------------------------------------------------------
(* Properties of the modular program.                                      *)

\* The step wrote exactly what a successful instruction wrote, `outcomes`
\* being what the instructions looked at return.
WroteOneOf(outcomes) ==
    \E res \in outcomes : res.err = "Ok" /\ Accounts' = res.acc
Wrote(res) == WroteOneOf({res})

\* The CreateLoan terms the specification accepts.
TermsInRange(terms) ==
    /\ BigLeq(Dec(<<50, 0, 0>>), terms[1]) /\ BigLeq(terms[1], Dec(<<5000, 0, 0>>))
    /\ terms[2] >= 1 /\ terms[2] <= 3000
    /\ terms[3] >= 3 /\ terms[3] <= 60

CreateLoanFor(A, user, terms, start) ==
    create_loan(A, now, Admin, user, terms[1], terms[2], terms[3], start)

\* C1: in every reachable state every UserProfile has active_loans 0 or 1,
\* and CreateLoan for a borrower whose active_loans is 1 never succeeds: it
\* fails with ActiveLoanExists whenever its terms are in range (and with the
\* error of the term out of range otherwise).
C1_AtMostOneActiveLoan ==
    \A user \in DOMAIN userProfiles :
        /\ userProfiles[user].active_loans \in {0, 1}
        /\ userProfiles[user].active_loans = 1 =>
             \A terms \in LoanInputs, start \in StartInputs :
                \E res \in {CreateLoanFor(Accounts, user, terms, start)} :
                    /\ res.err # "Ok"
                    /\ TermsInRange(terms) => res.err = "ActiveLoanExists"

\* a borrower on a second loan, the first one closed
C1_SecondLoanAfterClosure ==
    \E user \in DOMAIN userProfiles :
        /\ userProfiles[user].active_loans = 1
        /\ userProfiles[user].completed_loans
             + userProfiles[user].defaulted_loans >= 1
        /\ CreateLoanFor(Accounts, user, SmallestTerms, T0).err = "ActiveLoanExists"

C2_StatusStep ==
    \A key \in DOMAIN loans :
        /\ key \in DOMAIN loans'
        /\ loans'[key].status # loans[key].status =>
             /\ loans[key].status = "Active"
             /\ \/ /\ loans'[key].status = "Completed"
                   /\ Wrote(mark_loan_completed(Accounts, now, Admin,
                                                key[1], key[2]))
                \/ /\ loans'[key].status = "Defaulted"
                   /\ Wrote(mark_loan_defaulted(Accounts, now, Admin,
                                                key[1], key[2]))

\* C2: a loan's status changes only from Active to Completed, by a
\* successful MarkLoanCompleted, or from Active to Defaulted, by a
\* successful MarkLoanDefaulted; a Completed or Defaulted loan keeps its
\* status, and no loan is ever Cancelled.
C2_StatusTransitions ==
    /\ [](\A key \in DOMAIN loans :
            loans[key].status \in {"Active", "Completed", "Defaulted"})
    /\ [][C2_StatusStep]_vars

\* one loan Defaulted and another Completed
C2_BothClosures ==
    \E k1 \in DOMAIN loans, k2 \in DOMAIN loans :
        loans[k1].status = "Defaulted" /\ loans[k2].status = "Completed"

C3_BalanceStep ==
    \A key \in DOMAIN loans :
        /\ key \in DOMAIN loans'
        /\ BigLeq(loans'[key].outstanding_balance, loans[key].outstanding_balance)
        /\ (loans'[key].status = "Completed" /\ loans[key].status # "Completed")
             => loans[key].outstanding_balance = Zero

\* C3: no step increases a loan's outstanding_balance, and MarkLoanCompleted
\* succeeds only for a loan whose outstanding_balance is 0.
C3_BalanceNeverIncreases ==
    /\ [](\A key \in DOMAIN loans :
            mark_loan_completed(Accounts, now, Admin, key[1], key[2]).err = "Ok"
                => loans[key].outstanding_balance = Zero)
    /\ [][C3_BalanceStep]_vars

\* a loan paid down in part and still open, and a loan completed at zero
C3_PaidDownAndCompleted ==
    /\ \E key \in DOMAIN loans :
          /\ loans[key].status = "Active"
          /\ BigLt(Zero, loans[key].outstanding_balance)
          /\ BigLt(loans[key].outstanding_balance, loans[key].total_amount)
    /\ \E key \in DOMAIN loans :
          /\ loans[key].status = "Completed"
          /\ loans[key].outstanding_balance = Zero
          /\ BigLt(Zero, loans[key].total_repaid)

\* C4: a successful RecordPayment lowers the loan's outstanding_balance by
\* the principal portion of the payment only, the amount paid less its
\* fine_amount (stopping at 0).
C4_PaymentLowersByPrincipal ==
    [][\A pkey \in (DOMAIN paymentRecords') \ DOMAIN paymentRecords :
          LET principal == BigSub(paymentRecords'[pkey].amount,
                                  paymentRecords'[pkey].fine_amount)
              before == loans[pkey[1]].outstanding_balance
          IN  loans'[pkey[1]].outstanding_balance =
                  IF BigLeq(principal, before) THEN BigSub(before, principal)
                  ELSE Zero]_vars

\* C5: RecordPayment for an installment that already has a PaymentRecord
\* fails with InstallmentAlreadyPaid and leaves every record as it was.
C5_SecondPaymentIsAlreadyPaid ==
    \A pkey \in DOMAIN paymentRecords :
        \E res \in {record_payment(Accounts, now, Admin, pkey[1][1], pkey[1][2],
                                   pkey[2], paymentRecords[pkey].amount,
                                   ValidHash)} :
            res.err = "InstallmentAlreadyPaid" /\ Commit(res) = Accounts

\* C6: every UserProfile's credit_score lies in [300, 850].
C6_CreditScoreInRange ==
    \A user \in DOMAIN userProfiles :
        userProfiles[user].credit_score >= 300
        /\ userProfiles[user].credit_score <= 850

\* The step is what one successful instruction wrote, the instruction being
\* looked for among those that write the kind of record the step changed.
C7_WrittenBySuccess ==
    IF UNCHANGED <<programState, userProfiles, loans, paymentRecords,
                   riskProfiles>>
    THEN TRUE
    ELSE IF DOMAIN userProfiles' # DOMAIN userProfiles
    THEN WroteOneOf({RegisterUserOutcome(c) : c \in RegisterUserCalls})
    ELSE IF DOMAIN loans' # DOMAIN loans
    THEN WroteOneOf({CreateLoanOutcome(c) : c \in CreateLoanCalls})
    ELSE IF DOMAIN paymentRecords' # DOMAIN paymentRecords
    THEN WroteOneOf({RecordPaymentOutcome(c) : c \in RecordPaymentCalls})
    ELSE IF riskProfiles' # riskProfiles
    THEN WroteOneOf({UpdateRiskScoreOutcome(c) : c \in UpdateRiskScoreCalls})
    ELSE IF loans' # loans
    THEN WroteOneOf({MarkLoanDefaultedOutcome(key) : key \in LoanCalls}
                    \cup {MarkLoanCompletedOutcome(key) : key \in LoanCalls}
                    \cup {WaiveFineOutcome(c) : c \in WaiveFineCalls})
    ELSE IF userProfiles' # userProfiles
    THEN WroteOneOf({UpdateUserProfileOutcome(c) : c \in UpdateUserProfileCalls}
                    \cup {UpdateRiskScoreOutcome(c) : c \in UpdateRiskScoreCalls})
    ELSE FALSE

C8_CountersStep ==
    /\ IF \E c \in RegisterUserCalls : Wrote(RegisterUserOutcome(c))
       THEN programState'.total_users =
                BigAdd(programState.total_users, BigOfNat(1))
       ELSE programState'.total_users = programState.total_users
    /\ IF \E c \in CreateLoanCalls : Wrote(CreateLoanOutcome(c))
       THEN /\ programState'.total_loans =
                   BigAdd(programState.total_loans, BigOfNat(1))
            /\ \E c \in CreateLoanCalls :
                  /\ Wrote(CreateLoanOutcome(c))
                  /\ programState'.total_volume =
                         BigAdd(programState.total_volume, c[2][1])
       ELSE /\ programState'.total_loans = programState.total_loans
            /\ programState'.total_volume = programState.total_volume

\* C8: total_users is the number of UserProfiles, total_loans the number of
\* Loans and total_volume the sum of their principal_amount; a successful
\* RegisterUser adds 1 to total_users, a successful CreateLoan adds 1 to
\* total_loans and the principal to total_volume, and no other step changes
\* any of the three.
C8_ProgramCounters ==
    /\ [](/\ programState.total_users = BigOfNat(Cardinality(DOMAIN userProfiles))
          /\ programState.total_loans = BigOfNat(Cardinality(DOMAIN loans))
          /\ programState.total_volume =
                 BigSum([key \in DOMAIN loans |-> loans[key].principal_amount],
                        DOMAIN loans))
    /\ [][C8_CountersStep]_vars

\* two borrowers registered, each with a loan, of different principals
C8_TwoUsersTwoLoans ==
    /\ Cardinality(DOMAIN userProfiles) = 2
    /\ \E k1 \in DOMAIN loans, k2 \in DOMAIN loans :
          loans[k1].principal_amount # loans[k2].principal_amount
    /\ programState.total_volume = BigAdd(MIN_PRINCIPAL, MAX_PRINCIPAL)

C9_LoanIdStep ==
    /\ \A key \in DOMAIN loans :
          key \in DOMAIN loans' /\ loans'[key].loan_id = loans[key].loan_id
    /\ \A key \in (DOMAIN loans') \ DOMAIN loans :
          /\ loans'[key].loan_id = programState.total_loans
          /\ programState'.total_loans =
                 BigAdd(programState.total_loans, BigOfNat(1))
          /\ \A old \in DOMAIN loans :
                BigLt(loans[old].loan_id, loans'[key].loan_id)

\* C9: CreateLoan gives the new loan the value total_loans had before the
\* call and adds 1 to total_loans: the loan_ids are 0, 1, 2, ... in creation
\* order, and no two loans, of whatever borrowers, share one.
C9_LoanIds ==
    /\ [](/\ \A k1 \in DOMAIN loans, k2 \in DOMAIN loans :
                k1 # k2 => loans[k1].loan_id # loans[k2].loan_id
          /\ {loans[key].loan_id : key \in DOMAIN loans} =
                 {BigOfNat(i) : i \in 0..(Cardinality(DOMAIN loans) - 1)})
    /\ [][C9_LoanIdStep]_vars

\* loans 0 and 1 held by different borrowers
C9_TwoBorrowersTwoIds ==
    \E k1 \in DOMAIN loans, k2 \in DOMAIN loans :
        /\ k1[1] # k2[1]
        /\ loans[k1].loan_id = Zero
        /\ loans[k2].loan_id = BigOfNat(1)

\* The error kinds of CreateLoan whose condition holds for a call.
CreateLoanErrors(A, user, terms) ==
    {kind \in {"ProgramPaused", "InvalidLoanAmount", "InvalidInterestRate",
               "InvalidTenure", "ActiveLoanExists"} :
        \/ kind = "ProgramPaused" /\ A.program_state.paused
        \/ kind = "InvalidLoanAmount"
             /\ ~(BigLeq(Dec(<<50, 0, 0>>), terms[1])
                  /\ BigLeq(terms[1], Dec(<<5000, 0, 0>>)))
        \/ kind = "InvalidInterestRate" /\ (terms[2] = 0 \/ terms[2] > 3000)
        \/ kind = "InvalidTenure" /\ (terms[3] < 3 \/ terms[3] > 60)
        \/ kind = "ActiveLoanExists" /\ A.user_profiles[user].active_loans >= 1}

\* the accounts as a paused program would present them
Paused(A) == [A EXCEPT !.program_state.paused = TRUE]

\* C10: CreateLoan for a registered borrower fails with ProgramPaused when
\* the program is paused, InvalidLoanAmount when the principal is outside
\* [5_000_000_000, 500_000_000_000], InvalidInterestRate when the rate is 0
\* or above 3000, InvalidTenure when the tenure is outside [3, 60] and
\* ActiveLoanExists when the borrower has an active loan (one of these kinds
\* when several apply); when none applies it creates an Active loan with
\* outstanding_balance = total_amount, total_repaid = 0 and total_fines = 0.
C10_CreateLoanOutcomes ==
    \A A \in {Accounts, Paused(Accounts)}, user \in DOMAIN userProfiles,
       terms \in LoanInputs, start \in StartInputs :
        \E res \in {CreateLoanFor(A, user, terms, start)} :
            LET kinds == CreateLoanErrors(A, user, terms)
                key == <<user, A.program_state.total_loans>>
            IN  IF kinds # {}
                THEN res.err \in kinds
                ELSE /\ res.err = "Ok"
                     /\ DOMAIN res.acc.loans = DOMAIN A.loans \cup {key}
                     /\ key \notin DOMAIN A.loans
                     /\ res.acc.loans[key].status = "Active"
                     /\ res.acc.loans[key].outstanding_balance =
                            res.acc.loans[key].total_amount
                     /\ res.acc.loans[key].total_repaid = Zero
                     /\ res.acc.loans[key].total_fines = Zero

\* a loan just created, while another borrower is free to borrow and the
\* first one is not
C10_CreatedAndRefused ==
    \E key \in DOMAIN loans, other \in DOMAIN userProfiles :
        /\ loans[key].status = "Active"
        /\ loans[key].outstanding_balance = loans[key].total_amount
        /\ loans[key].total_repaid = Zero
        /\ CreateLoanFor(Accounts, key[1], SmallestTerms, T0).err
               = "ActiveLoanExists"
        /\ CreateLoanFor(Accounts, other, LargestTerms, T0).err = "Ok"
        /\ CreateLoanFor(Paused(Accounts), other, LargestTerms, T0).err
               = "ProgramPaused"

\* The valid CreateLoan terms at the corners of the accepted ranges, the
\* smallest valid rate included (where the interest is smallest).
CornerTerms ==
    {MIN_PRINCIPAL, MAX_PRINCIPAL} \X {1, 1200, MAX_INTEREST_RATE}
        \X {MIN_TENURE, MAX_TENURE}

LoanAmountsAgree(loan) ==
    /\ loan.total_amount
           = BigMulSmall(loan.monthly_installment, loan.tenure_months)
    /\ BigLt(Zero, loan.monthly_installment)
    /\ BigLeq(loan.principal_amount, loan.total_amount)

\* C11: every loan CreateLoan creates from valid terms has total_amount =
\* monthly_installment * tenure_months exactly, monthly_installment > 0 and
\* total_amount >= principal_amount: for the loans on the ledger and for the
\* loan each valid corner of the terms would create next.
C11_TotalIsInstallmentTimesTenure ==
    /\ \A key \in DOMAIN loans : LoanAmountsAgree(loans[key])
    /\ \A user \in DOMAIN userProfiles, terms \in CornerTerms :
           \E res \in {CreateLoanFor(Accounts, user, terms, T0)} :
               res.err = "Ok" =>
                   /\ TermsInRange(terms)
                   /\ LoanAmountsAgree(
                          res.acc.loans[<<user, programState.total_loans>>])

\* the smallest and the largest valid loan are on the ledger, and a borrower
\* is free to take the loan with the smallest interest
C11_SmallestAndLargestCreated ==
    /\ \E key \in DOMAIN loans :
           loans[key].principal_amount = MIN_PRINCIPAL
           /\ loans[key].tenure_months = MIN_TENURE
    /\ \E key \in DOMAIN loans :
           loans[key].principal_amount = MAX_PRINCIPAL
           /\ loans[key].tenure_months = MAX_TENURE
    /\ \E user \in DOMAIN userProfiles :
           CreateLoanFor(Accounts, user, <<MIN_PRINCIPAL, 1, MIN_TENURE>>, T0).err
               = "Ok"

RecordPaymentFor(A, clock, key, installment_number, amount, payment_hash) ==
    record_payment(A, clock, Admin, key[1], key[2], installment_number, amount,
                   payment_hash)

\* what is due for an installment of a loan on the ledger at a ledger time
DueAt(key, installment_number, clock) ==
    BigAdd(loans[key].monthly_installment,
           fine_amount(loans[key],
                       days_late(loans[key], installment_number, clock)))

\* The payments looked at for an installment of a loan that has no
\* PaymentRecord yet, <<amount, payment hash>>: nothing, one unit, one unit
\* short of what is due now, and what is due now, the last also with a hash
\* that is too long.
PaymentProbes(key, installment_number) ==
    LET due == DueAt(key, installment_number, now)
    IN  ({Zero, BigOfNat(1), BigSub(due, BigOfNat(1)), due} \X {ValidHash})
        \cup {<<due, LongHash>>}
InstallmentProbes(key) ==
    {k \in {0, 1, loans[key].tenure_months, loans[key].tenure_months + 1} :
        <<key, k>> \notin DOMAIN paymentRecords}

\* The error kinds the statement names for a payment whose loan is there and
\* whose installment has no PaymentRecord yet.
RecordPaymentErrors(key, installment_number, amount) ==
    {kind \in {"LoanNotActive", "InvalidInstallmentNumber",
               "InsufficientPayment"} :
        \/ kind = "LoanNotActive" /\ loans[key].status # "Active"
        \/ kind = "InvalidInstallmentNumber"
             /\ (installment_number < 1
                 \/ installment_number > loans[key].tenure_months)
        \/ kind = "InsufficientPayment"
             /\ BigLt(amount, DueAt(key, installment_number, now))}

\* C12 as stated: RecordPayment fails with LoanNotActive when the loan is
\* not Active, with InvalidInstallmentNumber when the installment number is
\* outside [1, tenure_months] and with InsufficientPayment when the amount is
\* below monthly_installment + fine_amount (one of these kinds when several
\* apply), and creates no PaymentRecord.
C12_PaymentErrorsAsStated ==
    \A key \in DOMAIN loans : \A k \in InstallmentProbes(key) :
    \A p \in PaymentProbes(key, k) :
        \E res \in {RecordPaymentFor(Accounts, now, key, k, p[1], p[2])} :
            RecordPaymentErrors(key, k, p[1]) # {} =>
                /\ res.err \in RecordPaymentErrors(key, k, p[1])
                /\ Commit(res).payment_records = paymentRecords

\* The first check of the handler that a payment fails, in the order of the
\* handler; "Ok" when it passes them all.
FirstPaymentError(key, installment_number, amount, payment_hash) ==
    IF loans[key].status # "Active" THEN "LoanNotActive"
    ELSE IF installment_number < 1
            \/ installment_number > loans[key].tenure_months
    THEN "InvalidInstallmentNumber"
    ELSE IF amount = Zero THEN "InvalidPaymentAmount"
    ELSE IF Len(payment_hash) > 100 THEN "InvalidStringFormat"
    ELSE IF BigLt(amount, DueAt(key, installment_number, now))
    THEN "InsufficientPayment"
    ELSE "Ok"

\* C12, amended: for a loan on the ledger and an installment without a
\* PaymentRecord, RecordPayment fails with the first of: LoanNotActive (loan
\* not Active), InvalidInstallmentNumber (number outside [1, tenure_months]),
\* InvalidPaymentAmount (amount 0), InvalidStringFormat (payment hash longer
\* than 100 bytes), InsufficientPayment (amount below monthly_installment +
\* fine_amount at the current time); a failed payment creates no
\* PaymentRecord, and a payment that passes the five checks is not refused
\* with any of these kinds.
C12_PaymentErrorsInOrder ==
    \A key \in DOMAIN loans : \A k \in InstallmentProbes(key) :
    \A p \in PaymentProbes(key, k) :
        \E res \in {RecordPaymentFor(Accounts, now, key, k, p[1], p[2])} :
            LET first == FirstPaymentError(key, k, p[1], p[2])
            IN  /\ first # "Ok" => res.err = first
                /\ first = "Ok" => res.err \in {"Ok", "MathOverflow"}
                /\ res.err # "Ok" =>
                       Commit(res).payment_records = paymentRecords

\* a closed loan and an Active loan with an unpaid installment are on the
\* ledger: payments are refused for the closed loan, for installment 0, for
\* an amount of 0 and for an amount one unit short
C12_EachRefusalHappens ==
    \E closed \in DOMAIN loans, key \in DOMAIN loans :
        /\ loans[closed].status # "Active"
        /\ <<closed, 3>> \notin DOMAIN paymentRecords
        /\ RecordPaymentFor(Accounts, now, closed, 3, U64_MAX, ValidHash).err
               = "LoanNotActive"
        /\ loans[key].status = "Active"
        /\ <<key, 1>> \notin DOMAIN paymentRecords
        /\ RecordPaymentFor(Accounts, now, key, 0, U64_MAX, ValidHash).err
               = "InvalidInstallmentNumber"
        /\ RecordPaymentFor(Accounts, now, key, 1, Zero, ValidHash).err
               = "InvalidPaymentAmount"
        /\ RecordPaymentFor(Accounts, now, key, 1,
                            BigSub(DueAt(key, 1, now), BigOfNat(1)),
                            ValidHash).err
               = "InsufficientPayment"
        /\ RecordPaymentFor(Accounts, now, key, 1, DueAt(key, 1, now),
                            ValidHash).err = "Ok"

\* How long after the current ledger time a payment is looked at: at once, a
\* second, a day less a second, a day, 5 days, and 65_535, 65_536 and 65_541
\* days later.
LatenessProbes ==
    {Zero, BigOfNat(1), BigOfNat(SECONDS_PER_DAY - 1), Days(1), Days(5),
     Days(U16_MAX), Days(U16_MAX + 1), Days(U16_MAX + 6)}

\* the last on-time instant of an installment: start + k * 30 days + 2 days
LastOnTimeInstant(loan, k) ==
    BigAdd(loan.start_timestamp, BigOfNat((k * 30 + 2) * 86400))

LatenessAsStated(loan, record) ==
    LET last == LastOnTimeInstant(loan, record.installment_number)
    IN  /\ record.on_time = BigLeq(record.payment_timestamp, last)
        /\ ~record.on_time =>
               BigOfNat(record.days_late)
                   = BigDivSmall(BigSub(record.payment_timestamp, last), 86400)

\* C14: a successful RecordPayment for installment k at ledger time t
\* records on_time = TRUE exactly when t <= start_timestamp + k * 30 days +
\* 2 days, and otherwise on_time = FALSE with days_late = floor((t - (start +
\* k * 30 days + 2 days)) / 1 day): for the PaymentRecords on the ledger and
\* for the payment of what is due made at once or later.
C14_LatenessAsStated ==
    /\ \A pkey \in DOMAIN paymentRecords :
           LatenessAsStated(loans[pkey[1]], paymentRecords[pkey])
    /\ \A key \in DOMAIN loans : \A k \in {1, 2} : \A later \in LatenessProbes :
           \E t \in {BigAdd(now, later)} :
           \E res \in {RecordPaymentFor(Accounts, t, key, k, DueAt(key, k, t),
                                        ValidHash)} :
               res.err = "Ok" =>
                   LatenessAsStated(loans[key],
                                    res.acc.payment_records[<<key, k>>])

\* floor(monthly_installment * 50 * days_late / 10000)
FineAsStated(loan, late) ==
    BigDivSmall(BigMulSmall(BigMulSmall(loan.monthly_installment, 50), late),
                10000)

\* how long after the current ledger time the fine of a payment is looked at
FineProbes == {Zero, Days(1), Days(5), Days(U16_MAX - 30)}

\* C15: the fine RecordPayment charges is floor(monthly_installment * 50 *
\* days_late / 10000), without a cap, and 0 when days_late is 0; the
\* PaymentRecord stores that value and the loan's total_fines grows by it:
\* for the PaymentRecords on the ledger and for the payment of what is due
\* made at once or later.
C15_FineIsDailyRateTimesDaysLate ==
    /\ \A pkey \in DOMAIN paymentRecords :
           paymentRecords[pkey].fine_amount
               = FineAsStated(loans[pkey[1]], paymentRecords[pkey].days_late)
    /\ \A key \in DOMAIN loans : \A k \in {1, 2} : \A later \in FineProbes :
           \E t \in {BigAdd(now, later)} :
           \E res \in {RecordPaymentFor(Accounts, t, key, k, DueAt(key, k, t),
                                        ValidHash)} :
               res.err = "Ok" =>
                   LET record == res.acc.payment_records[<<key, k>>]
                   IN  /\ record.fine_amount
                              = FineAsStated(loans[key], record.days_late)
                       /\ record.days_late = 0 => record.fine_amount = Zero
                       /\ res.acc.loans[key].total_fines
                              = BigAdd(loans[key].total_fines,
                                       record.fine_amount)

\* a loan with installment 1 paid 30 days late, the fine being 15% of the
\* installment, and installment 2 paid on time without a fine, while a
\* payment 65_505 days from now would be charged more than 300 installments
C15_FinedAndUnfinedPayment ==
    \E key \in DOMAIN loans :
        /\ {<<key, 1>>, <<key, 2>>} \subseteq DOMAIN paymentRecords
        /\ paymentRecords[<<key, 1>>].days_late = 30
        /\ paymentRecords[<<key, 1>>].fine_amount
               = BigDivSmall(BigMulSmall(loans[key].monthly_installment, 15), 100)
        /\ paymentRecords[<<key, 2>>].days_late = 0
        /\ paymentRecords[<<key, 2>>].fine_amount = Zero
        /\ loans[key].total_fines = paymentRecords[<<key, 1>>].fine_amount
        /\ \E other \in DOMAIN loans :
               BigLt(BigMulSmall(loans[other].monthly_installment, 300),
                     fine_amount(loans[other],
                                 days_late(loans[other], 1,
                                           BigAdd(now, Days(U16_MAX - 30)))))

\* C16: MarkLoanCompleted fails with LoanNotActive when the loan is not
\* Active and fails when outstanding_balance is not 0; otherwise it sets
\* status = Completed and completed_timestamp = now, lowers the borrower's
\* active_loans by 1, raises completed_loans by 1 and sets credit_score to
\* min(850, old + 20), which is never below the old score.
C16_CompletionAsStated ==
    \A key \in DOMAIN loans :
        \E res \in {mark_loan_completed(Accounts, now, Admin, key[1], key[2])} :
            LET old == userProfiles[key[1]]
                new == res.acc.user_profiles[key[1]]
            IN  IF loans[key].status # "Active"
                THEN res.err = "LoanNotActive"
                ELSE IF loans[key].outstanding_balance # Zero
                THEN res.err # "Ok"
                ELSE /\ res.err = "Ok"
                     /\ res.acc.loans[key].status = "Completed"
                     /\ res.acc.loans[key].completed_timestamp = Some(now)
                     /\ new.active_loans = old.active_loans - 1
                     /\ new.completed_loans = old.completed_loans + 1
                     /\ new.credit_score
                            = (IF old.credit_score + 20 <= 850
                               THEN old.credit_score + 20 ELSE 850)
                     /\ new.credit_score >= old.credit_score

MarkLoanDefaultedFor(A, signer, key) ==
    mark_loan_defaulted(A, now, signer, key[1], key[2])

DefaultedNow(res, key) ==
    /\ res.err = "Ok"
    /\ res.acc.loans[key].status = "Defaulted"
    /\ res.acc.loans[key].defaulted_timestamp = Some(now)

\* C17 as stated: MarkLoanDefaulted fails only when the loan is not Active;
\* on every Active loan, whatever its outstanding_balance, it succeeds and
\* sets status = Defaulted and defaulted_timestamp = now.
C17_DefaultsEveryActiveLoan ==
    \A key \in DOMAIN loans :
        \E res \in {MarkLoanDefaultedFor(Accounts, Admin, key)} :
            IF loans[key].status = "Active" THEN DefaultedNow(res, key)
            ELSE res.err # "Ok"

\* C17, amended: in the modular program MarkLoanDefaulted fails with
\* LoanNotActive when the loan is not Active and with LoanAlreadyCompleted
\* when the loan is Active with outstanding_balance = 0, changing nothing; on
\* every Active loan with outstanding_balance > 0 it succeeds and sets
\* status = Defaulted and defaulted_timestamp = now.
C17_DefaultsActiveLoanWithBalance ==
    \A key \in DOMAIN loans :
        \E res \in {MarkLoanDefaultedFor(Accounts, Admin, key)} :
            IF loans[key].status # "Active"
            THEN res.err = "LoanNotActive" /\ Commit(res) = Accounts
            ELSE IF loans[key].outstanding_balance = Zero
            THEN res.err = "LoanAlreadyCompleted" /\ Commit(res) = Accounts
            ELSE DefaultedNow(res, key)

\* a loan has been defaulted, and an Active loan that is paid off cannot be
\* defaulted
C17_PaidOffLoanNotDefaulted ==
    \E closed \in DOMAIN loans, key \in DOMAIN loans :
        /\ loans[closed].status = "Defaulted"
        /\ loans[closed].defaulted_timestamp = Some(now)
        /\ loans[key].status = "Active"
        /\ loans[key].outstanding_balance = Zero
        /\ MarkLoanDefaultedFor(Accounts, Admin, key).err
               = "LoanAlreadyCompleted"

\* signers other than the administrator: the borrowers and a stranger
Outsiders == (Borrowers \cup {"mallory"}) \ {programState.authority}

Rejected(res, kind) == res.err = kind /\ Commit(res) = Accounts

\* C19: WaiveFine, UpdateRiskScore and MarkLoanDefaulted signed by anyone
\* but the administrator (ProgramState.authority) are rejected with
\* Unauthorized and change no record.
C19_OnlyAdministratorActs ==
    \A signer \in Outsiders :
        /\ \A user \in DOMAIN userProfiles, input \in RiskInputs :
               Rejected(update_risk_score(Accounts, now, signer, user,
                                          input[1], input[2], input[3]),
                        "Unauthorized")
        /\ \A key \in DOMAIN loans :
               Rejected(MarkLoanDefaultedFor(Accounts, signer, key),
                        "Unauthorized")
        /\ \A pkey \in DOMAIN paymentRecords :
               Rejected(waive_fine(Accounts, now, signer, pkey[1][1],
                                   pkey[1][2], pkey[2],
                                   paymentRecords[pkey].fine_amount),
                        "Unauthorized")

WaiveFineFor(A, pkey, waived_amount) == waive_fine(A, now, Admin, pkey[1][1], pkey[1][2], pkey[2], waived_amount)

\* the fine recorded for the payment and the amount one unit above it
WaiverProbes(pkey) == {paymentRecords[pkey].fine_amount, BigAdd(paymentRecords[pkey].fine_amount, BigOfNat(1))}

\* C20: WaiveFine fails with InvalidPaymentAmount when the waived amount
\* exceeds the fine recorded for the payment; otherwise it succeeds and
\* lowers the loan's total_fines and its outstanding_balance by exactly
\* the waived amount.
C20_WaiverAsStated ==
    \A pkey \in DOMAIN paymentRecords :
        \A waived_amount \in WaiverProbes(pkey) :
            \E res \in {WaiveFineFor(Accounts, pkey, waived_amount)} :
                IF BigLt(paymentRecords[pkey].fine_amount, waived_amount)
                THEN Rejected(res, "InvalidPaymentAmount")
                ELSE /\ res.err = "Ok"
                     /\ BigAdd(res.acc.loans[pkey[1]].total_fines, waived_amount)
                            = loans[pkey[1]].total_fines
                     /\ BigAdd(res.acc.loans[pkey[1]].outstanding_balance, waived_amount)
                            = loans[pkey[1]].outstanding_balance

\* UpdateRiskScore arguments <<risk_score, risk_level, default_probability>>
\* around both limits, for every risk level
RiskProbes == {0, MAX_RISK_SCORE, MAX_RISK_SCORE + 1, U16_MAX} \X RiskLevel \X {0, MAX_DEFAULT_PROBABILITY, MAX_DEFAULT_PROBABILITY + 1}

UpdateRiskScoreFor(A, user, input) == update_risk_score(A, now, Admin, user, input[1], input[2], input[3])

\* C21: for a registered borrower UpdateRiskScore fails with
\* InvalidRiskScore when risk_score > 1000 and (the score being in range)
\* with InvalidDefaultProbability when default_probability > 10000, changing
\* nothing; when it succeeds, the UserProfile's credit_score and risk_level
\* and the RiskProfile's risk_score, risk_level and default_probability are
\* the supplied values, the RiskProfile exists afterwards whether or not it
\* did before, and the two records agree on score and level.
C21_RiskScoreOverwrites ==
    \A user \in DOMAIN userProfiles, input \in RiskProbes :
        \E res \in {UpdateRiskScoreFor(Accounts, user, input)} :
            /\ input[1] > 1000 => Rejected(res, "InvalidRiskScore")
            /\ input[1] <= 1000 /\ input[3] > 10000 =>
                   Rejected(res, "InvalidDefaultProbability")
            /\ res.err = "Ok" =>
                   /\ input[1] <= 1000 /\ input[3] <= 10000
                   /\ user \in DOMAIN res.acc.risk_profiles
                   /\ LET up == res.acc.user_profiles[user]
                          rp == res.acc.risk_profiles[user]
                      IN  /\ up.credit_score = input[1]
                          /\ up.risk_level = input[2]
                          /\ rp.risk_score = input[1]
                          /\ rp.risk_level = input[2]
                          /\ rp.default_probability = input[3]
                          /\ rp.user = user
                          /\ up.credit_score = rp.risk_score
                          /\ up.risk_level = rp.risk_level
            /\ input[1] <= 1000 /\ input[3] <= 10000 =>
                   res.err \in {"Ok", "MathOverflow"}

\* alice's RiskProfile was created by a first UpdateRiskScore that
\* overwrote her initial score of 500 and level Medium, a further update
\* would overwrite it with another level, and updates above either limit
\* are refused
C21_ProfileCreatedAndRefused ==
    /\ "alice" \in DOMAIN riskProfiles
    /\ riskProfiles["alice"].risk_score = MAX_RISK_SCORE
    /\ userProfiles["alice"].credit_score = MAX_RISK_SCORE
    /\ userProfiles["alice"].risk_level = "Low"
    /\ UpdateRiskScoreFor(Accounts, "alice", <<0, "Critical", 0>>).err = "Ok"
    /\ UpdateRiskScoreFor(Accounts, "alice", <<MAX_RISK_SCORE + 1, "Low", 0>>).err = "InvalidRiskScore"
    /\ UpdateRiskScoreFor(Accounts, "alice", <<0, "Low", MAX_DEFAULT_PROBABILITY + 1>>).err = "InvalidDefaultProbability"
    /\ "bob" \in DOMAIN userProfiles /\ "bob" \notin DOMAIN riskProfiles
    /\ UpdateRiskScoreFor(Accounts, "bob", <<0, "High", 0>>).err = "Ok"

\* the program-wide ceiling the recommendation is capped at: 500_000_000_000
RecommendedLoanCeiling == Dec(<<5000, 0, 0>>)

\* C22: after a successful UpdateRiskScore, recommended_max_loan =
\* min(monthly_income * multiplier(risk_level), 500_000_000_000) with the
\* multipliers 10 > 6 > 3 > 1 for Low, Medium, High, Critical; it never
\* exceeds the ceiling.
C22_RecommendedMaxLoanCapped ==
    /\ income_multiplier("Low") = 10 /\ income_multiplier("Medium") = 6
    /\ income_multiplier("High") = 3 /\ income_multiplier("Critical") = 1
    /\ \A user \in DOMAIN userProfiles, input \in RiskProbes :
           \E res \in {UpdateRiskScoreFor(Accounts, user, input)} :
               res.err = "Ok" =>
                   LET recommended == res.acc.risk_profiles[user].recommended_max_loan
                       product == BigMulSmall(userProfiles[user].monthly_income, income_multiplier(input[2]))
                   IN  /\ recommended = BigMin(product, RecommendedLoanCeiling)
                       /\ BigLeq(recommended, RecommendedLoanCeiling)
    /\ \A user \in DOMAIN riskProfiles :
           BigLeq(riskProfiles[user].recommended_max_loan, RecommendedLoanCeiling)

\* the identities that have no UserProfile yet
Unregistered == (Borrowers \cup {"mallory"}) \ DOMAIN userProfiles

\* RegisterUser arguments <<full_name, monthly_income, employment_type>>
\* around the limits of the name and of the income
RegisterProbes == {"", NameOfLen(100), NameOfLen(101)} \X {Zero, BigOfNat(1), Income, U64_MAX} \X EmploymentType

RegisterUserFor(A, authority, input) == register_user(A, now, authority, input[1], input[2], input[3])

RegisterUserErrors(A, input) ==
    {kind \in {"ProgramPaused", "NameTooLong", "IncomeTooLow"} :
        \/ kind = "ProgramPaused" /\ A.program_state.paused
        \/ kind = "NameTooLong" /\ Len(input[1]) > 100
        \/ kind = "IncomeTooLow" /\ input[2] = Zero}

\* C23: RegisterUser of an identity without a profile fails with
\* ProgramPaused when the program is paused, NameTooLong when the name is
\* longer than 100 bytes and IncomeTooLow when monthly_income is 0 (one of
\* these kinds when several apply); otherwise it succeeds, creates a
\* UserProfile with the given name, income and employment, credit_score 500,
\* risk_level Medium and every loan and payment counter and total 0, and
\* raises ProgramState.total_users by exactly 1.
C23_RegisterUserAsStated ==
    \A A \in {Accounts, Paused(Accounts)}, authority \in Unregistered, input \in RegisterProbes :
        \E res \in {RegisterUserFor(A, authority, input)} :
            LET kinds == RegisterUserErrors(A, input)
            IN  IF kinds # {}
                THEN res.err \in kinds
                ELSE /\ res.err = "Ok"
                     /\ DOMAIN res.acc.user_profiles = DOMAIN A.user_profiles \cup {authority}
                     /\ res.acc.program_state.total_users = BigAdd(A.program_state.total_users, BigOfNat(1))
                     /\ LET up == res.acc.user_profiles[authority]
                        IN  /\ up.authority = authority
                            /\ up.full_name = input[1]
                            /\ up.monthly_income = input[2]
                            /\ up.employment_type = input[3]
                            /\ up.credit_score = 500
                            /\ up.risk_level = "Medium"
                            /\ up.total_loans = 0 /\ up.active_loans = 0
                            /\ up.completed_loans = 0 /\ up.defaulted_loans = 0
                            /\ up.on_time_payments = 0 /\ up.late_payments = 0
                            /\ up.missed_payments = 0
                            /\ up.total_borrowed = Zero /\ up.total_repaid = Zero

\* alice has just registered, as the only user so far; bob could register
\* now, and would be refused with too long a name, with no income, or by a
\* paused program
C23_RegisteredAndRefused ==
    /\ DOMAIN userProfiles = {"alice"}
    /\ programState.total_users = BigOfNat(1)
    /\ userProfiles["alice"].credit_score = 500
    /\ userProfiles["alice"].risk_level = "Medium"
    /\ userProfiles["alice"].total_loans = 0
    /\ RegisterUserFor(Accounts, "bob", <<NameOfLen(100), BigOfNat(1), "Salaried">>).err = "Ok"
    /\ RegisterUserFor(Accounts, "bob", <<NameOfLen(101), BigOfNat(1), "Salaried">>).err = "NameTooLong"
    /\ RegisterUserFor(Accounts, "bob", <<NameOfLen(100), Zero, "Salaried">>).err = "IncomeTooLow"
    /\ RegisterUserFor(Paused(Accounts), "bob", <<NameOfLen(100), BigOfNat(1), "Salaried">>).err = "ProgramPaused"

\* C24: RegisterUser for an identity that already has a UserProfile fails
\* with UserAlreadyRegistered; the existing profile is not reset and
\* total_users is not incremented.
C24_SecondRegistrationRefused ==
    \A authority \in DOMAIN userProfiles, input \in RegisterProbes :
        \E res \in {RegisterUserFor(Accounts, authority, input)} :
            /\ res.err = "UserAlreadyRegistered"
            /\ Commit(res).user_profiles[authority] = userProfiles[authority]
            /\ Commit(res).program_state.total_users = programState.total_users

\* UpdateUserProfile arguments <<monthly_income, employment_type>>
ProfileProbes == {None, Some(Zero), Some(BigOfNat(1)), Some(U64_MAX)} \X {None, Some("Unemployed")}

UpdateUserProfileFor(A, user_profile, authority, input) == update_user_profile(A, now, user_profile, authority, input[1], input[2])

\* the profile with the three fields the instruction may write blanked out
OtherFields(profile) == [profile EXCEPT !.monthly_income = Zero, !.employment_type = "Salaried", !.last_updated = Zero]

\* C25: UpdateUserProfile signed by anyone but the profile's owner fails
\* with Unauthorized; signed by the owner with an income of 0 it fails with
\* IncomeTooLow; a failure changes nothing, a success changes only
\* monthly_income, employment_type and last_updated of that profile; and
\* every UserProfile has monthly_income > 0.
C25_OwnerUpdatesProfile ==
    /\ \A user \in DOMAIN userProfiles : BigLt(Zero, userProfiles[user].monthly_income)
    /\ \A user_profile \in DOMAIN userProfiles, authority \in Borrowers \cup {"mallory"}, input \in ProfileProbes :
           \E res \in {UpdateUserProfileFor(Accounts, user_profile, authority, input)} :
               /\ authority # userProfiles[user_profile].authority =>
                      Rejected(res, "Unauthorized")
               /\ authority = userProfiles[user_profile].authority /\ input[1] = Some(Zero) =>
                      Rejected(res, "IncomeTooLow")
               /\ res.err = "Ok" =>
                      /\ authority = userProfiles[user_profile].authority
                      /\ [res.acc EXCEPT !.user_profiles[user_profile] = userProfiles[user_profile]] = Accounts
                      /\ OtherFields(res.acc.user_profiles[user_profile]) = OtherFields(userProfiles[user_profile])
                      /\ BigLt(Zero, res.acc.user_profiles[user_profile].monthly_income)

\* the accounts as they stand, and as an UpdateRiskScore that sets the
\* borrower's score to the lowest or the highest accepted value leaves them
AfterRiskUpdate(user) == {Accounts} \cup {Commit(UpdateRiskScoreFor(Accounts, user, <<score, "Medium", 0>>)) : score \in {0, MAX_RISK_SCORE}}

\* C26: a successful on-time RecordPayment raises on_time_payments by 1,
\* leaves late_payments alone and does not lower credit_score, which moves
\* up by 2 or stops at 850; a successful late one raises late_payments by
\* 1, leaves on_time_payments alone and does not raise credit_score, which
\* moves down by 5 or stops at 300.
C26_PaymentMovesScore ==
    \A key \in DOMAIN loans :
        \A k \in 1..loans[key].tenure_months, A \in AfterRiskUpdate(key[1]) :
            \E res \in {RecordPaymentFor(A, now, key, k, DueAt(key, k, now), ValidHash)} :
                res.err = "Ok" =>
                    LET old == A.user_profiles[key[1]]
                        new == res.acc.user_profiles[key[1]]
                    IN  IF res.acc.payment_records[<<key, k>>].on_time
                        THEN /\ new.on_time_payments = old.on_time_payments + 1
                             /\ new.late_payments = old.late_payments
                             /\ new.credit_score >= old.credit_score
                             /\ new.credit_score = old.credit_score + 2 \/ new.credit_score = 850
                        ELSE /\ new.late_payments = old.late_payments + 1
                             /\ new.on_time_payments = old.on_time_payments
                             /\ new.credit_score <= old.credit_score
                             /\ new.credit_score = old.credit_score - 5 \/ new.credit_score = 300

\* what each instruction that has an event of its own returned for the
\* calls submitted to it, with the kind of that event
OutcomesWithEvent ==
    ({RegisterUserOutcome(c) : c \in RegisterUserCalls} \X {"UserRegistered"})
    \cup ({CreateLoanOutcome(c) : c \in CreateLoanCalls} \X {"LoanCreated"})
    \cup ({RecordPaymentOutcome(c) : c \in RecordPaymentCalls} \X {"PaymentRecorded"})
    \cup ({UpdateRiskScoreOutcome(c) : c \in UpdateRiskScoreCalls} \X {"RiskScoreUpdated"})
    \cup ({MarkLoanDefaultedOutcome(key) : key \in LoanCalls} \X {"LoanDefaulted"})
    \cup ({MarkLoanCompletedOutcome(key) : key \in LoanCalls} \X {"LoanCompleted"})
    \cup ({WaiveFineOutcome(c) : c \in WaiveFineCalls} \X {"FineWaived"})

EventsMatch(outcomes) == \A o \in outcomes : o[1].events = (IF o[1].err = "Ok" THEN <<o[2]>> ELSE <<>>)

\* C27 as stated: every successful transition emits exactly one event, of
\* the kind that matches it, and a failed one emits none.
C27_OneEventPerSuccess ==
    /\ EventsMatch(OutcomesWithEvent)
    /\ \A res \in {UpdateUserProfileOutcome(c) : c \in UpdateUserProfileCalls} :
           Len(res.events) = (IF res.err = "Ok" THEN 1 ELSE 0)

\* C27: a successful RegisterUser, CreateLoan, RecordPayment,
\* UpdateRiskScore, MarkLoanDefaulted, MarkLoanCompleted or WaiveFine emits
\* exactly one event, of its own kind (UserRegistered, LoanCreated,
\* PaymentRecorded, RiskScoreUpdated, LoanDefaulted, LoanCompleted,
\* FineWaived); UpdateUserProfile and GetCreditScore emit no event even when
\* they succeed; a failed instruction emits none.
C27_OneEventPerListedSuccess ==
    /\ EventsMatch(OutcomesWithEvent)
    /\ \A res \in {UpdateUserProfileOutcome(c) : c \in UpdateUserProfileCalls}
                  \cup {GetCreditScoreOutcome(user) : user \in Borrowers} :
           res.events = <<>>

\* a payment is recorded and another refused, the risk score can be set,
\* the loan can be defaulted, and bob can change his profile
C27_EmittingAndSilentSuccesses ==
    /\ \E c \in RecordPaymentCalls : RecordPaymentOutcome(c).events = <<"PaymentRecorded">>
    /\ \E c \in RecordPaymentCalls : RecordPaymentOutcome(c).err \notin {"Ok", "AccountNotInitialized"}
    /\ \E c \in UpdateRiskScoreCalls : UpdateRiskScoreOutcome(c).events = <<"RiskScoreUpdated">>
    /\ \E key \in LoanCalls : MarkLoanDefaultedOutcome(key).events = <<"LoanDefaulted">>
    /\ \E c \in UpdateUserProfileCalls : UpdateUserProfileOutcome(c).err = "Ok"
    /\ \E c \in UpdateUserProfileCalls : UpdateUserProfileOutcome(c).err = "ConstraintSeeds"
    /\ \E c \in RegisterUserCalls : RegisterUserOutcome(c).err = "AccountAlreadyInUse"

\* the PaymentRecord of what is due for installment k, paid at ledger time t
RecordAt(key, k, t) == RecordPaymentFor(Accounts, t, key, k, DueAt(key, k, t), ValidHash).acc.payment_records[<<key, k>>]

PaidAt(key, k, t) == RecordPaymentFor(Accounts, t, key, k, DueAt(key, k, t), ValidHash).err = "Ok"

\* C29: for a loan and an installment, a payment made later records no
\* smaller days_late and no smaller fine_amount than one made earlier,
\* lateness of more than 65_535 days included.
C29_LaterPaymentNoSmallerFine ==
    \A key \in DOMAIN loans : \A k \in {1, 2} : \A earlier \in LatenessProbes, later \in LatenessProbes :
        \E t1 \in {BigAdd(now, earlier)}, t2 \in {BigAdd(now, later)} :
            (BigLeq(t1, t2) /\ PaidAt(key, k, t1) /\ PaidAt(key, k, t2)) =>
                /\ RecordAt(key, k, t1).days_late <= RecordAt(key, k, t2).days_late
                /\ BigLeq(RecordAt(key, k, t1).fine_amount, RecordAt(key, k, t2).fine_amount)

C31_ProgramStateStep ==
    /\ programState'.authority = programState.authority
    /\ programState'.fee_percentage = programState.fee_percentage
    /\ programState'.paused = programState.paused

NeverPaused ==
    /\ ~programState.paused
    /\ \A res \in Outcomes : res.err # "ProgramPaused"
    /\ \A authority \in Unregistered, input \in RegisterInputs :
           register_user(Accounts, now, authority, input[1], input[2], "Salaried").err # "ProgramPaused"
    /\ \A user \in DOMAIN userProfiles, terms \in LoanInputs :
           CreateLoanFor(Accounts, user, terms, T0).err # "ProgramPaused"

\* C31: no step changes ProgramState.authority, fee_percentage or paused;
\* paused is false in every reachable state, and no RegisterUser and no
\* CreateLoan fails with ProgramPaused.
C31_ProgramStateFrozen == []NeverPaused /\ [][C31_ProgramStateStep]_vars

\* users have registered and loans have been created, some calls of both
\* were refused for other reasons, and the program is as initialize left it
C31_ActiveAndUnpaused ==
    /\ programState.total_users = BigOfNat(2)
    /\ programState.total_loans = BigOfNat(2)
    /\ programState.authority = Admin
    /\ programState.fee_percentage = 250
    /\ ~programState.paused
    /\ \E c \in RegisterUserCalls : RegisterUserOutcome(c).err = "AccountAlreadyInUse"
    /\ \E c \in CreateLoanCalls : CreateLoanOutcome(c).err = "ActiveLoanExists"

\* the Loan records of a borrower, and those of them with a given status
LoansOf(user) == {key \in DOMAIN loans : loans[key].user = user}
LoansWithStatus(user, status) == {key \in LoansOf(user) : loans[key].status = status}

\* C32: each UserProfile's active_loans is the number of the borrower's
\* Loan records whose status is Active.
C32_ActiveLoansCounted ==
    \A user \in DOMAIN userProfiles :
        userProfiles[user].active_loans = Cardinality(LoansWithStatus(user, "Active"))

\* a borrower with a defaulted loan and, created after it, an Active one
C32_OpenedAndClosed ==
    \E user \in DOMAIN userProfiles :
        /\ userProfiles[user].active_loans = 1
        /\ Cardinality(LoansWithStatus(user, "Defaulted")) = 1
        /\ Cardinality(LoansWithStatus(user, "Active")) = 1

\* C33: each UserProfile has total_loans = active_loans + completed_loans +
\* defaulted_loans, and total_loans is the number of Loan records created
\* for the borrower.
C33_LoanCountersAddUp ==
    \A user \in DOMAIN userProfiles :
        LET up == userProfiles[user]
        IN  /\ up.total_loans = up.active_loans + up.completed_loans + up.defaulted_loans
            /\ up.total_loans = Cardinality(LoansOf(user))

\* a borrower with one loan completed and another defaulted
C33_CompletedAndDefaulted ==
    \E user \in DOMAIN userProfiles :
        /\ userProfiles[user].completed_loans = 1
        /\ userProfiles[user].defaulted_loans = 1
        /\ userProfiles[user].total_loans = 2
        /\ Cardinality(LoansOf(user)) = 2

\* C34: each UserProfile's total_borrowed is the sum of principal_amount
\* over the borrower's Loan records, and its total_repaid the sum of their
\* total_repaid.
C34_BorrowedAndRepaidAddUp ==
    \A user \in DOMAIN userProfiles :
        /\ userProfiles[user].total_borrowed
               = BigSum([key \in LoansOf(user) |-> loans[key].principal_amount], LoansOf(user))
        /\ userProfiles[user].total_repaid
               = BigSum([key \in LoansOf(user) |-> loans[key].total_repaid], LoansOf(user))

\* a borrower with two loans, both with payments recorded
C34_TwoLoansRepaid ==
    \E user \in DOMAIN userProfiles :
        /\ Cardinality(LoansOf(user)) = 2
        /\ \A key \in LoansOf(user) : BigLt(Zero, loans[key].total_repaid)
        /\ BigLt(Zero, userProfiles[user].total_borrowed)

\* the amounts waived so far for a payment, and for all payments of a loan
WaivedFor(pkey) == IF pkey \in DOMAIN waived THEN BigSum(waived[pkey], DOMAIN waived[pkey]) ELSE Zero
RecordsOf(key) == {pkey \in DOMAIN paymentRecords : pkey[1] = key}
WaivedOfLoan(key) == BigSum([pkey \in RecordsOf(key) |-> WaivedFor(pkey)], RecordsOf(key))
FinesOfLoan(key) == BigSum([pkey \in RecordsOf(key) |-> paymentRecords[pkey].fine_amount], RecordsOf(key))

\* C35: the amounts waived for one payment never add up to more than the
\* fine charged for it, and a loan's total_fines is the sum of the fines
\* charged on its PaymentRecords less the sum of the amounts waived: now,
\* and after any further WaiveFine that succeeds.
C35_WaiversWithinFine ==
    /\ \A pkey \in DOMAIN paymentRecords :
           BigLeq(WaivedFor(pkey), paymentRecords[pkey].fine_amount)
    /\ \A key \in DOMAIN loans :
           BigAdd(loans[key].total_fines, WaivedOfLoan(key)) = FinesOfLoan(key)
    /\ \A pkey \in DOMAIN paymentRecords : \A waived_amount \in WaiverProbes(pkey) :
           \E res \in {WaiveFineFor(Accounts, pkey, waived_amount)} :
               res.err = "Ok" =>
                   /\ BigLeq(BigAdd(WaivedFor(pkey), waived_amount), paymentRecords[pkey].fine_amount)
                   /\ BigAdd(res.acc.loans[pkey[1]].total_fines, BigAdd(WaivedOfLoan(pkey[1]), waived_amount))
                          = FinesOfLoan(pkey[1])

C36_ClosedLoanStep ==
    \A key \in DOMAIN loans :
        loans[key].status \in {"Completed", "Defaulted"} =>
            key \in DOMAIN loans' /\ loans'[key] = loans[key]

\* C36: once a loan is Completed or Defaulted, no step changes any field of
\* its Loan record.
C36_ClosedLoanFrozen == [][C36_ClosedLoanStep]_vars

OnTimeIffNoFine(record) ==
    /\ record.on_time = (record.days_late = 0)
    /\ (record.days_late = 0) = (record.fine_amount = Zero)

C38_CompletedIsRepaid ==
    \A key \in DOMAIN loans :
        loans[key].status = "Completed" =>
            BigLeq(loans[key].total_amount, loans[key].total_repaid)

AllInstallmentsRecorded(A, key) ==
    \A k \in 1..A.loans[key].tenure_months : <<key, k>> \in DOMAIN A.payment_records

PaidInFull(A, key) ==
    AllInstallmentsRecorded(A, key) =>
        /\ A.loans[key].outstanding_balance = Zero
        /\ A.loans[key].status = "Active" =>
               mark_loan_completed(A, now, Admin, key[1], key[2]).err = "Ok"

\* the installments of a loan that have no PaymentRecord yet
Unrecorded(A, key) ==
    {k \in 1..A.loans[key].tenure_months : <<key, k>> \notin DOMAIN A.payment_records}

\* the ledgers at most one further accepted RecordPayment away from A: an
\* installment that has no record yet, paid now with exactly what is due or
\* with the loan's whole outstanding balance
FurtherPayment(A, key) ==
    {A} \cup
    {res.acc : res \in
        {r \in UNION {{RecordPaymentFor(A, now, key, k, amount, ValidHash) :
                          amount \in {DueAt(key, k, now),
                                      A.loans[key].outstanding_balance}} :
                      k \in Unrecorded(A, key)} :
            r.err = "Ok"}}

\* C39: whenever all tenure_months installments of a loan have a
\* PaymentRecord, the loan's outstanding_balance is exactly 0, and if the
\* loan is Active MarkLoanCompleted succeeds on it; this holds on the ledger
\* and, for a loan with at most two installments left, after any one or
\* two further accepted payments.
C39_AllPaidMeansNoBalance ==
    \A key \in DOMAIN loans :
        /\ PaidInFull(Accounts, key)
        /\ Cardinality(Unrecorded(Accounts, key)) <= 2 =>
               \A A1 \in FurtherPayment(Accounts, key) :
                   \A A2 \in FurtherPayment(A1, key) : PaidInFull(A2, key)

\* an Active loan with one installment left, and paying it leaves every
\* installment recorded and the loan ready to be closed
C39_LastInstallmentPaid ==
    \E key \in DOMAIN loans :
        /\ loans[key].status = "Active"
        /\ ~AllInstallmentsRecorded(Accounts, key)
        /\ BigLt(Zero, loans[key].outstanding_balance)
        /\ \E A1 \in FurtherPayment(Accounts, key) :
               /\ AllInstallmentsRecorded(A1, key)
               /\ mark_loan_completed(A1, now, Admin, key[1], key[2]).err = "Ok"

-----------------------------------------------------------------------------
(* Properties of the single-file program.                                  *)

SingleRecordPaymentFor(A, clock, key, installment_number, amount) ==
    single_record_payment(A, clock, Admin, key[1], key[2], installment_number,
                          amount, ValidHash, TRUE)

\* C13: in the single-file program a late RecordPayment (fine_amount > 0)
\* whose amount is below monthly_installment + fine_amount fails with
\* InsufficientPayment: no PaymentRecord with a fine has a smaller amount,
\* and a payment of the installment alone is refused when a fine is due.
C13_LatePaymentCoversFine ==
    /\ \A pkey \in DOMAIN paymentRecords :
           BigLt(Zero, paymentRecords[pkey].fine_amount) =>
               BigLeq(BigAdd(loans[pkey[1]].monthly_installment,
                             paymentRecords[pkey].fine_amount),
                      paymentRecords[pkey].amount)
    /\ \A key \in DOMAIN loans : \A k \in {1, 2} :
           (/\ loans[key].status = "Active"
            /\ <<key, k>> \notin DOMAIN paymentRecords
            /\ BigLt(Zero, SingleFineAt(key, k, now)))
           => SingleRecordPaymentFor(Accounts, now, key, k,
                                     loans[key].monthly_installment).err
                  = "InsufficientPayment"

\* C18: a successful MarkLoanDefaulted lowers the borrower's active_loans by
\* 1, raises defaulted_loans by 1, sets risk_level = Critical and leaves
\* credit_score at max(300, old score - penalty): no higher than before and
\* no lower than 300.  Here for the single-file program, whose penalty is 200.
C18_DefaultPenaltyAsStated ==
    \A key \in DOMAIN loans :
        \E res \in {single_mark_loan_defaulted(Accounts, now, Admin, key[1],
                                               key[2])} :
            res.err = "Ok" =>
                LET old == userProfiles[key[1]]
                    new == res.acc.user_profiles[key[1]]
                IN  /\ new.active_loans = old.active_loans - 1
                    /\ new.defaulted_loans = old.defaulted_loans + 1
                    /\ new.risk_level = "Critical"
                    /\ new.credit_score <= old.credit_score
                    /\ new.credit_score >= 300
                    /\ new.credit_score
                           = (IF old.credit_score - 200 >= 300
                              THEN old.credit_score - 200 ELSE 300)


\* monthly incomes whose tenfold is the largest that fits 64 bits, the
\* smallest that does not, and the largest income there is
LargestTenfoldIncome == BigDivSmall(U64_MAX, SINGLE_INCOME_MULTIPLIER)
IncomeProbes == {Income, LargestTenfoldIncome, BigAdd(LargestTenfoldIncome, BigOfNat(1)), U64_MAX}

\* the accounts after the borrower has set their income with UpdateUserProfile
WithIncome(user, income) == Commit(single_update_user_profile(Accounts, now, user, user, Some(income), None))

\* C28: when monthly_income * multiplier in UpdateRiskScore exceeds 64 bits
\* the transition fails with MathOverflow and stores nothing; otherwise the
\* recommendation stored is computed from the exact product, never from a
\* wrapped one.
C28_OverflowIsMathOverflow ==
    \A user \in DOMAIN userProfiles, income \in IncomeProbes, level \in RiskLevel, checks \in OverflowChecks :
        \E A \in {WithIncome(user, income)} :
            \E res \in {single_update_risk_score(A, now, Admin, user, 500, level, 0, checks)} :
                IF BigLt(U64_MAX, BigMulSmall(income, SINGLE_INCOME_MULTIPLIER))
                THEN res.err = "MathOverflow"
                ELSE /\ res.err = "Ok"
                     /\ res.acc.risk_profiles[user].recommended_max_loan
                            = BigMin(BigMulSmall(income, SINGLE_INCOME_MULTIPLIER), RecommendedLoanCeiling)

\* the lateness the statement gives a payment at time t of an installment
\* due at start + k * 30 days: whole days past the due date, 0 if not past it
SingleDaysPastDue(loan, k, t) ==
    LET due_date == BigAdd(loan.start_timestamp, BigOfNat(k * 30 * 86400))
    IN  IF BigLt(due_date, t) THEN BigDivSmall(BigSub(t, due_date), 86400) ELSE Zero

SingleLatenessAsStated(loan, record) ==
    /\ BigOfNat(record.days_late) = SingleDaysPastDue(loan, record.installment_number, record.payment_timestamp)
    /\ record.on_time = (record.days_late = 0)
    /\ record.fine_amount = BigMin(BigDivSmall(BigMulSmall(loan.monthly_installment, record.days_late), 100), BigDivSmall(loan.monthly_installment, 10))
    /\ BigLeq(BigMulSmall(record.fine_amount, 10), loan.monthly_installment)

\* C30: in the single-file program a successful RecordPayment of
\* installment k at time t records days_late = floor((t - due_date) / 1 day)
\* when t > due_date = start + k * 30 days and 0 otherwise, on_time exactly
\* when days_late = 0, and fine_amount = min(floor(monthly_installment *
\* days_late / 100), floor(monthly_installment / 10)), at most a tenth of the
\* installment: for the PaymentRecords on the ledger and for a payment made
\* at once or later.
C30_SingleLatenessAndCappedFine ==
    /\ \A pkey \in DOMAIN paymentRecords :
           SingleLatenessAsStated(loans[pkey[1]], paymentRecords[pkey])
    /\ \A key \in DOMAIN loans : \A k \in {1, 2} : \A later \in LatenessProbes :
           \E res \in {SingleRecordPaymentFor(Accounts, BigAdd(now, later), key, k, loans[key].monthly_installment)} :
               res.err = "Ok" =>
                   SingleLatenessAsStated(loans[key], res.acc.payment_records[<<key, k>>])
=============================================================================
